---- MODULE Spec2Model ----
(***************************************************************************)
(* Verification model of the conversation orchestration engine             *)
(* (orchestrator/engine.py), the agent registry                            *)
(* (orchestrator/agent_loader.py) and the hot-rebuildable runner handle    *)
(* (orchestrator/adk_runner.py, ws/handler.py).                            *)
(*                                                                         *)
(* Spec        : one run_turn invocation of the engine.                    *)
(* SpecTurns   : run_turn invocations on one Session, one after another.   *)
(* SpecMerge   : build_agents_merged() over a bounded set of stores.       *)
(* SpecStore   : save_agent, delete_agent, load_all and the merge.         *)
(* SpecRunner  : rebuild_runner() calls and WebSocket turns, interleaved.  *)
(* SpecRebuild : rebuild_runner() calls between store changes.             *)
(* SpecSessions: WebSocket connections and their sessions.                 *)
(* SpecOverlap : two overlapping rebuild_runner() calls.                   *)
(* SpecWriters : two overlapping save_agent calls.                         *)
(* SpecBudget  : one run_turn invocation, its backend calls counted.       *)
(* SpecTools   : get_tools_for() over bounded lists of tool names.         *)
(***************************************************************************)
EXTENDS Integers, Sequences, FiniteSets, TLC

VARIABLES
    \* ---- Session (orchestrator/types.py) ----
    active_agent,       \* session.active_agent (the Agent object, by name)
    history,            \* session.history
    context,            \* session.context
    \* ---- run_turn / _generate_with_retry frames ----
    pc,                 \* position inside run_turn
    round_num,          \* loop variable of run_turn
    model,              \* the GenerativeModel built for this round
    attempt,            \* loop variable of _generate_with_retry
    e,                  \* the exception currently bound by an except clause
    delays,             \* asyncio.sleep() calls made by the current model call
    response,           \* value returned by _generate_with_retry
    fc_index,           \* position in the for-loop over function_calls
    tool_result_parts,  \* run_turn's local list
    reply,              \* value returned by run_turn
    model_calls,        \* _generate_with_retry invocations of this turn
    handoff_log,        \* "Handoff: a -> b" log lines of the current round
    call_log,           \* execute_tool calls of the current round, in order
    \* ---- agent registry ----
    self_plugins,       \* AgentLoader._plugins: the discovered built-ins
    gcs_configs,        \* the override store: what load_all() returns
    merged,             \* value of the last build_agents_merged() call
    \* ---- runner handle (orchestrator/adk_runner.py) ----
    runner,             \* the module-level _runner
    runners_built,      \* Runner objects constructed so far (object identity)
    rb_pc,              \* per admin call: position inside rebuild_runner()
    rb_merged,          \* per admin call: (specialists, fallback)
    rb_new_root,        \* per admin call: new_root
    rb_new_runner,      \* per admin call: new_runner
    rb_error,           \* per admin call: exception raised to the caller
    \* ---- WebSocket connections (ws/handler.py) ----
    ws_pc,              \* per connection: position inside websocket_endpoint
    session_id,         \* per connection: session_id (None until materialised)
    turn_runner,        \* per connection: the Runner whose run_async is iterated
    turn_log,           \* per connection: runner ids behind this turn's events
    session_log,        \* per connection: runner id used by each turn so far
    inbox,              \* per connection: messages sent, not yet received
    in_flight,          \* per connection: turns started and not yet ended
    \* ---- override store (services/agent_gcs_store.py) ----
    store_file,         \* the stored JSON document (agents.json)
    store_log,          \* save_agent / delete_agent calls made so far
    loaded,             \* the last load_all() call: who made it, what it gave
    rebuild_log,        \* store changes and rebuild_runner() calls, in order
    writers,            \* per caller: its save_agent call in progress
    \* ---- the caller of run_turn ----
    invocations         \* run_turn invocations on this Session, in order

engineVars == <<active_agent, history, context, pc, round_num, model, attempt,
                e, delays, response, fc_index, tool_result_parts, reply,
                model_calls, handoff_log, call_log>>

mergeVars == <<self_plugins, gcs_configs, merged>>

runnerVars == <<runner, runners_built, rb_pc, rb_merged, rb_new_root,
                rb_new_runner, rb_error>>

wsVars == <<ws_pc, session_id, turn_runner, turn_log, session_log, inbox,
            in_flight>>

storeVars == <<store_file, store_log, loaded, rebuild_log, writers>>

callerVars == <<invocations>>

vars == <<engineVars, mergeVars, runnerVars, wsVars, storeVars, callerVars>>

-----------------------------------------------------------------------------
(* Engine constants                                                        *)

MAX_TOOL_ROUNDS == 6
MAX_RETRIES == 3
RETRY_BASE_DELAY == 10
GEMINI_MODEL == "gemini-2.5-flash"

None == "None"

RECURSIVE Pow2(_)
Pow2(n) == IF n = 0 THEN 1 ELSE 2 * Pow2(n - 1)

Range(s) == {s[i] : i \in 1..Len(s)}

-----------------------------------------------------------------------------
(* The agents a session runs on.  An Agent is name, instructions (a string *)
(* or a callable of the context), tools and model ("" = GEMINI_MODEL).     *)

AgentSet == {"Triage", "Billing", "Support"}

\* Agent objects by name.  "Legacy" is an Agent object that exists in the
\* process but is not part of AgentSet.
Agent(name) ==
    CASE name = "Triage" ->
           [name |-> "Triage", callable |-> TRUE, instructions |-> "route",
            tools |-> <<"transfer_to_billing", "transfer_to_support">>,
            model |-> ""]
      [] name = "Billing" ->
           [name |-> "Billing", callable |-> TRUE, instructions |-> "billing",
            tools |-> <<"lookup_invoice", "set_language", "set_locale",
                        "refer_to_support", "transfer_to_triage">>,
            model |-> "gemini-2.5-pro"]
      [] name = "Support" ->
           [name |-> "Support", callable |-> FALSE, instructions |-> "support",
            tools |-> <<"escalate_to_legacy", "transfer_to_triage">>,
            model |-> ""]
      [] OTHER ->
           [name |-> "Legacy", callable |-> FALSE, instructions |-> "legacy",
            tools |-> <<"transfer_to_triage">>,
            model |-> "gemini-1.5-flash"]

\* What a tool callable can do when invoked: return a str, return an Agent,
\* return a Result, or raise.
Raw(kind, text, agent, ctx) ==
    [kind |-> kind, text |-> text, agent |-> agent, ctx |-> ctx]

EmptyDict == <<>>

ToolBehaviour(name) ==
    CASE name = "transfer_to_billing" -> {Raw("agent", "", "Billing", EmptyDict)}
      [] name = "transfer_to_support" -> {Raw("agent", "", "Support", EmptyDict)}
      [] name = "transfer_to_triage" -> {Raw("agent", "", "Triage", EmptyDict)}
      [] name = "escalate_to_legacy" -> {Raw("agent", "", "Legacy", EmptyDict)}
      [] name = "lookup_invoice" -> {Raw("str", "invoice 42: paid", None, EmptyDict),
                                     Raw("raise", "db timeout", None, EmptyDict)}
      [] name = "set_language" -> {Raw("result", "language set", None,
                                       [lang |-> "es"])}
      [] name = "set_locale" -> {Raw("result", "locale set", None,
                                     [lang |-> "fr", region |-> "FR"])}
      [] name = "refer_to_support" -> {Raw("result", "Referred to support.",
                                           "Support", EmptyDict)}
      [] OTHER -> {}

-----------------------------------------------------------------------------
(* Pure helpers of engine.py                                               *)

DictUpdate_KeepExisting(d, u) ==
    [k \in (DOMAIN d) \cup (DOMAIN u) |-> IF k \in DOMAIN d THEN d[k] ELSE u[k]]

\* dict.update
DictUpdate(d, u) ==
    [k \in (DOMAIN d) \cup (DOMAIN u) |-> IF k \in DOMAIN u THEN u[k] ELSE d[k]]

resolve_instructions(agent, ctx) ==
    IF agent.callable
    THEN <<agent.instructions, IF "lang" \in DOMAIN ctx THEN ctx["lang"] ELSE "">>
    ELSE <<agent.instructions>>

build_gemini_tools(funcs) == funcs

Result(value, agent, context_update) ==
    [value |-> value, agent |-> agent, context_update |-> context_update]

\* an exception that leaves a function for its caller
Raise(exc) == [raised |-> exc]

IsRaise(r) == "raised" \in DOMAIN r

TransferNote ==
    "Continue the conversation naturally. Do NOT greet or introduce yourself"

execute_tool_NoTryExcept(name, tools, raw) ==
    IF name \notin Range(tools)
    THEN Result(<<"Error: tool '", name, "' not found.">>, None, EmptyDict)
    ELSE CASE raw.kind = "raise" -> Raise(raw.text)
           [] raw.kind = "result" -> Result(<<raw.text>>, raw.agent, raw.ctx)
           [] raw.kind = "agent" ->
                Result(<<"Transfer to ", raw.agent, " complete. ", TransferNote>>,
                       raw.agent, EmptyDict)
           [] OTHER -> Result(<<raw.text>>, None, EmptyDict)

execute_tool_NotFoundRaises(name, tools, raw) ==
    IF name \notin Range(tools)
    THEN Raise("StopIteration")
    ELSE CASE raw.kind = "raise" ->
                Result(<<"Error executing ", name, ": ", raw.text>>, None, EmptyDict)
           [] raw.kind = "result" -> Result(<<raw.text>>, raw.agent, raw.ctx)
           [] raw.kind = "agent" ->
                Result(<<"Transfer to ", raw.agent, " complete. ", TransferNote>>,
                       raw.agent, EmptyDict)
           [] OTHER -> Result(<<raw.text>>, None, EmptyDict)

execute_tool_AnonymousError(name, tools, raw) ==
    IF name \notin Range(tools)
    THEN Result(<<"Error: tool '", name, "' not found.">>, None, EmptyDict)
    ELSE CASE raw.kind = "raise" ->
                Result(<<"Error executing tool">>, None, EmptyDict)
           [] raw.kind = "result" -> Result(<<raw.text>>, raw.agent, raw.ctx)
           [] raw.kind = "agent" ->
                Result(<<"Transfer to ", raw.agent, " complete. ", TransferNote>>,
                       raw.agent, EmptyDict)
           [] OTHER -> Result(<<raw.text>>, None, EmptyDict)

\* execute_tool(function_call, tools, context); raw is what func(**args) does.
\* The value is a Result; next(..., None) and the try/except around
\* func(**args) leave no path on which an exception reaches the caller.
execute_tool(name, tools, raw) ==
    IF name \notin Range(tools)
    THEN Result(<<"Error: tool '", name, "' not found.">>, None, EmptyDict)
    ELSE CASE raw.kind = "raise" ->
                Result(<<"Error executing ", name, ": ", raw.text>>, None, EmptyDict)
           [] raw.kind = "result" ->
                Result(<<raw.text>>, raw.agent, raw.ctx)
           [] raw.kind = "agent" ->
                Result(<<"Transfer to ", raw.agent, " complete. ", TransferNote>>,
                       raw.agent, EmptyDict)
           [] OTHER ->
                Result(<<raw.text>>, None, EmptyDict)

HistoryAppend_Restart(h, content) == <<content>>

\* session.history.append(content)
HistoryAppend(h, content) == Append(h, content)

user_content(text) ==
    [role |-> "user", text |-> text, calls |-> <<>>, parts |-> <<>>]

model_content_TextOnly(r) ==
    [role |-> "model", text |-> r.text, calls |-> <<>>, parts |-> <<>>]

\* response.candidates[0].content, as it is appended to history
model_content(r) ==
    [role |-> "model", text |-> r.text, calls |-> r.calls, parts |-> <<>>]

tool_results_content(parts) ==
    [role |-> "user", text |-> "", calls |-> <<>>, parts |-> parts]

function_response_part(name, value) == [name |-> name, value |-> value]

extract_function_calls(r) == IF r.cand THEN r.calls ELSE <<>>

extract_text(r) == IF r.cand THEN r.text ELSE ""

-----------------------------------------------------------------------------
(* Backend failures and their classification                               *)

NoError == [type |-> "", msg |-> <<>>]

BackendErrors ==
    { [type |-> "ResourceExhausted", msg |-> <<"Quota", "exceeded">>],
      [type |-> "InvalidArgument", msg |-> <<"4290", "tokens", "too", "long">>],
      [type |-> "InternalServerError", msg |-> <<"500", "internal">>],
      [type |-> "PermissionDenied", msg |-> <<"API", "key", "not", "valid">>] }

Lower(tok) == IF tok = "Quota" THEN "quota" ELSE tok

\* needle in tok, for the tokens the model uses
IsSubstring(needle, tok) ==
    \/ needle = tok
    \/ needle = "429" /\ tok = "4290"

MsgContains(needle, msg) ==
    \E i \in 1..Len(msg) : IsSubstring(needle, Lower(msg[i]))

is_rate_limit_error(x) ==
    \/ MsgContains("429", x.msg)
    \/ MsgContains("quota", x.msg)
    \/ MsgContains("resource_exhausted", x.msg)
    \/ MsgContains("resourceexhausted", x.msg)
    \/ x.type \in {"ResourceExhausted", "TooManyRequests"}

ShouldRetry_OneMore(x, n) == is_rate_limit_error(x) /\ n < MAX_RETRIES

ShouldRetry_AnyError(x, n) == n < MAX_RETRIES - 1

\* the retry condition and the delay of _generate_with_retry
ShouldRetry(x, n) == is_rate_limit_error(x) /\ n < MAX_RETRIES - 1

RetryDelay(n) == RETRY_BASE_DELAY * Pow2(n)

-----------------------------------------------------------------------------
(* Values run_turn returns                                                 *)

RateLimitMsg ==
    <<"The API rate limit has been reached. Please wait a moment and try again.">>

GeminiErrorMsg(x) == <<"[Gemini error] ", x.type, ": ", x.msg>>

ResponseErrorMsg == <<"[Response error] ", "list index out of range">>

NoResponseMsg == <<"No response generated.">>

BudgetMsg == <<"Could not complete the request. Please try again.">>

BackendFailureReply_Generic(x) == GeminiErrorMsg(x)

\* the except clause of run_turn around _generate_with_retry
BackendFailureReply(x) ==
    IF is_rate_limit_error(x) THEN RateLimitMsg ELSE GeminiErrorMsg(x)

-----------------------------------------------------------------------------
(* What the model backend may answer                                       *)

Reply(cand, text, calls) == [cand |-> cand, text |-> text, calls |-> calls]

NoResponse == Reply(FALSE, "", <<>>)

ToolCallReplies ==
    { Reply(TRUE, "", <<"transfer_to_billing">>),
      Reply(TRUE, "", <<"transfer_to_billing", "transfer_to_triage">>),
      Reply(TRUE, "", <<"transfer_to_billing", "transfer_to_support">>),
      Reply(TRUE, "", <<"unknown_tool", "transfer_to_support">>),
      Reply(TRUE, "", <<"set_language", "lookup_invoice">>),
      Reply(TRUE, "", <<"escalate_to_legacy">>) }

ModelReplies ==
    ToolCallReplies \cup
    { Reply(TRUE, "Your invoice is paid.", <<>>),
      Reply(TRUE, "", <<>>),
      NoResponse }

UserMessages == {"where is my invoice?"}

-----------------------------------------------------------------------------
(* Agent registry: built-in plugins, the override store and the merge      *)
(* (agents/plugin.py, agents/tool_registry.py, orchestrator/agent_loader)  *)

AgentPlugin(name, routing_hint, instruction, mdl, is_fallback, tools) ==
    [name |-> name, routing_hint |-> routing_hint, instruction |-> instruction,
     model |-> mdl, is_fallback |-> is_fallback, tools |-> tools]

BookingPlugin ==
    AgentPlugin("Booking", "booking id or email lookup", "booking-instruction",
                GEMINI_MODEL, FALSE,
                <<"lookup_reservation", "get_reservations_by_email",
                  "check_cancellation_policy", "transfer_to_triage">>)

HelpCenterPlugin ==
    AgentPlugin("HelpCenter", "general help center", "helpcenter-instruction",
                GEMINI_MODEL, TRUE,
                <<"query_help_center", "transfer_to_triage">>)

AccommodationsPlugin ==
    AgentPlugin("Accommodations",
                "Accommodation info, amenities, check-in/out times, facilities",
                "accommodations-instruction", GEMINI_MODEL, FALSE,
                <<"lookup_property", "get_property_amenities",
                  "get_checkin_info", "transfer_to_triage">>)

SupportPlugin ==
    AgentPlugin("Support",
                "Incidents, complaints, maintenance problems, issues during stay",
                "support-instruction", GEMINI_MODEL, FALSE,
                <<"lookup_incident", "create_incident", "escalate_to_human",
                  "transfer_to_triage">>)

\* self._plugins after _load_plugins: module discovery order
Plugins == <<BookingPlugin, HelpCenterPlugin, AccommodationsPlugin, SupportPlugin>>

\* a plugin module that keeps AgentPlugin's default get_tools (no tools)
FaqPlugin ==
    AgentPlugin("Faq", "frequently asked questions", "faq-instruction",
                GEMINI_MODEL, FALSE, <<>>)

\* plugin lists _load_plugins can discover: the shipped modules, or the
\* shipped modules and one more
PluginLists == {Plugins, Append(Plugins, FaqPlugin)}

\* processed_names after the first loop of build_agents_merged
PluginNames == {self_plugins[i].name : i \in 1..Len(self_plugins)}

\* _validate: exactly one built-in fallback, no duplicate built-in names
validate(plugins) ==
    /\ Cardinality({i \in 1..Len(plugins) : plugins[i].is_fallback}) = 1
    /\ \A i, j \in 1..Len(plugins) : plugins[i].name = plugins[j].name => i = j

\* the keys of _build_registry()
ToolRegistry ==
    {"transfer_to_triage", "lookup_reservation", "get_reservations_by_email",
     "check_cancellation_policy", "lookup_property", "get_property_amenities",
     "get_checkin_info", "lookup_incident", "create_incident",
     "escalate_to_human", "query_help_center"}

InRegistry(n) == n \in ToolRegistry

get_tools_for_AlwaysAppend(tool_names) ==
    SelectSeq(Append(tool_names, "transfer_to_triage"), InRegistry)

\* names = list(tool_names), transfer_to_triage appended when not in it; the
\* loop keeps the names the registry has, in order
get_tools_for(tool_names) ==
    LET names == IF "transfer_to_triage" \notin Range(tool_names)
                 THEN Append(tool_names, "transfer_to_triage")
                 ELSE tool_names
    IN SelectSeq(names, InRegistry)

\* dict.get(key, default) on an override record
Get(cfg, key, default) == IF key \in DOMAIN cfg THEN cfg[key] ELSE default

\* gcs_configs.get(name, {}) on the store, a dict kept in insertion order
StoreKeys(store) == {store[i].key : i \in 1..Len(store)}

StoreGet(store, name) ==
    IF name \in StoreKeys(store)
    THEN store[CHOOSE i \in 1..Len(store) : store[i].key = name].cfg
    ELSE EmptyDict

LlmAgent(name, mdl, instruction, tools) ==
    [name |-> name, model |-> mdl, instruction |-> instruction, tools |-> tools]

\* the is_fallback a built-in ends up with
BuiltinIsFallback(plugin, override) ==
    Get(override, "is_fallback", plugin.is_fallback)

BuiltinEntry_IgnoreOverride(plugin, override) ==
    [plugin |-> plugin,
     agent |-> LlmAgent(plugin.name, plugin.model, plugin.instruction,
                        plugin.tools)]

\* loop body for a Python-source plugin: the (plugin, agent) pair
BuiltinEntry(plugin, override) ==
    [plugin |-> plugin,
     agent |-> LlmAgent(plugin.name,
                        Get(override, "model", plugin.model),
                        Get(override, "instruction", plugin.instruction),
                        IF "tools" \in DOMAIN override
                        THEN get_tools_for(override["tools"])
                        ELSE plugin.tools)]

\* loop body for a GCS-only record: the synthetic (plugin, agent) pair
SyntheticEntry(cfg) ==
    LET tools == get_tools_for(Get(cfg, "tools", <<"transfer_to_triage">>))
        synthetic_plugin ==
            AgentPlugin(cfg["name"], Get(cfg, "routing_hint", ""),
                        Get(cfg, "instruction", ""),
                        Get(cfg, "model", "gemini-2.5-flash"),
                        Get(cfg, "is_fallback", FALSE), tools)
    IN [plugin |-> synthetic_plugin,
        agent |-> LlmAgent(synthetic_plugin.name, synthetic_plugin.model,
                           synthetic_plugin.instruction, tools)]

\* the two loops of build_agents_merged, as a left fold over the work list
\* items: <<"builtin", plugin>> or <<"gcs", cfg>>; acc: [specialists, fallback]
RECURSIVE MergeLoop(_, _, _)
MergeLoop(items, store, acc) ==
    IF items = <<>> THEN acc
    ELSE LET it == Head(items)
             entry == IF it.kind = "builtin"
                      THEN BuiltinEntry(it.plugin, StoreGet(store, it.plugin.name))
                      ELSE SyntheticEntry(it.cfg)
             fb == IF it.kind = "builtin"
                   THEN BuiltinIsFallback(it.plugin, StoreGet(store, it.plugin.name))
                   ELSE entry.plugin.is_fallback
         IN MergeLoop(Tail(items), store,
                      IF fb
                      THEN [acc EXCEPT !.fallback = <<entry>>]
                      ELSE [acc EXCEPT !.specialists = Append(@, entry)])

IsGcsOnly(item) == item.key \notin PluginNames

WorkList(plugins, store) ==
    [i \in 1..Len(plugins) |->
        [kind |-> "builtin", plugin |-> plugins[i], cfg |-> EmptyDict]]
    \o
    LET only == SelectSeq(store, IsGcsOnly)
    IN [i \in 1..Len(only) |->
        [kind |-> "gcs", plugin |-> HelpCenterPlugin, cfg |-> only[i].cfg]]

Raised(err) ==
    [status |-> "raised", error |-> err, specialists |-> <<>>, fallback |-> <<>>]

\* build_agents_merged(): (specialists, fallback) or an exception.
\* fallback is a sequence: <<>> stands for None.
build_agents_merged(plugins, store) ==
    IF ~validate(plugins) THEN Raised("ValueError")
    ELSE IF \E i \in 1..Len(store) :
               IsGcsOnly(store[i]) /\ "name" \notin DOMAIN store[i].cfg
         THEN Raised("KeyError")
         ELSE LET acc == MergeLoop(WorkList(plugins, store), store,
                                   [specialists |-> <<>>, fallback |-> <<>>])
              IN [status |-> "returned", error |-> "",
                  specialists |-> acc.specialists, fallback |-> acc.fallback]

\* the loop of build_agents, as a left fold over the plugins
RECURSIVE BuildLoop(_, _)
BuildLoop(plugins, acc) ==
    IF plugins = <<>> THEN acc
    ELSE LET plugin == Head(plugins)
             entry == [plugin |-> plugin,
                       agent |-> LlmAgent(plugin.name, plugin.model,
                                          plugin.instruction, plugin.tools)]
         IN BuildLoop(Tail(plugins),
                      IF plugin.is_fallback
                      THEN [acc EXCEPT !.fallback = <<entry>>]
                      ELSE [acc EXCEPT !.specialists = Append(@, entry)])

\* build_agents(): the built-in agents, no store involved
build_agents(plugins) ==
    IF ~validate(plugins) THEN Raised("ValueError")
    ELSE LET acc == BuildLoop(plugins, [specialists |-> <<>>, fallback |-> <<>>])
         IN [status |-> "returned", error |-> "",
             specialists |-> acc.specialists, fallback |-> acc.fallback]

\* ---- override records the administrator may have stored ----

Override(key, cfg) == [key |-> key, cfg |-> cfg]

OverridePool ==
    { Override("HelpCenter", [name |-> "HelpCenter", is_fallback |-> FALSE]),
      Override("Booking", [name |-> "Booking", is_fallback |-> TRUE]),
      Override("Booking", [name |-> "Booking", instruction |-> "X"]),
      Override("Support", [name |-> "Support", routing_hint |-> "complaints only",
                           model |-> "gemini-2.5-pro",
                           tools |-> <<"lookup_incident", "bogus_tool">>]),
      Override("NewHelper", [name |-> "NewHelper"]),
      Override("NewHelper", [name |-> "NewHelper", is_fallback |-> TRUE,
                             tools |-> <<"query_help_center">>]),
      Override("Promo", [name |-> "Promo", routing_hint |-> "promotions",
                         instruction |-> "promo-instruction",
                         tools |-> <<"transfer_to_triage", "lookup_property">>]),
      Override("Promo", [instruction |-> "promo-instruction"]),
      Override("Promo", [name |-> "Promo", is_fallback |-> TRUE]),
      Override("Beta", [name |-> "Beta", tools |-> <<"bogus_tool">>]),
      Override("Alias", [name |-> "Booking"]),
      Override("Triage", [name |-> "Triage"]) }

MaxOverrides == 2

\* stores of at most MaxOverrides records under distinct keys
RECURSIVE StoresOfLen(_)
StoresOfLen(n) ==
    IF n = 0 THEN {<<>>}
    ELSE {Append(st, o) : st \in StoresOfLen(n - 1),
                          o \in OverridePool}

DistinctKeys(store) ==
    \A i, j \in 1..Len(store) : store[i].key = store[j].key => i = j

Stores ==
    {st \in UNION {StoresOfLen(n) : n \in 0..MaxOverrides} : DistinctKeys(st)}

NotBuilt ==
    [status |-> "none", error |-> "", specialists |-> <<>>, fallback |-> <<>>]

MergeInit ==
    /\ self_plugins \in PluginLists
    /\ gcs_configs \in Stores
    /\ merged = NotBuilt

\* AgentLoader().build_agents_merged() on the current store
BuildAgentsMerged ==
    /\ merged = NotBuilt
    /\ merged' = build_agents_merged(self_plugins, gcs_configs)
    /\ UNCHANGED <<self_plugins, gcs_configs>>

-----------------------------------------------------------------------------
(* The override store: the stored document and its reads                   *)
(* (services/agent_gcs_store.py)                                           *)

\* how an access to the storage backend ends
IOOutcomes == {"ok", "error"}

\* the value a call hands back, or the exception that leaves it
Returned(v) == [status |-> "returned", value |-> v, error |-> ""]

Thrown(err) == [status |-> "raised", value |-> <<>>, error |-> err]

\* agents.json: the text of a JSON object, or text json.loads rejects
Document(valid, objects) == [valid |-> valid, objects |-> objects]

CorruptDocument == Document(FALSE, <<>>)

\* json.dumps(data): one member per key, in the dict's order; the value of a
\* member is the object made of the record's members
json_dumps(data) ==
    Document(TRUE,
             [i \in 1..Len(data) |->
                 <<data[i].key,
                   {<<k, data[i].cfg[k]>> : k \in DOMAIN data[i].cfg}>>])

\* the dict json.loads builds from the members of one object
ObjectOf(members) ==
    [k \in {m[1] : m \in members} |-> (CHOOSE m \in members : m[1] = k)[2]]

\* json.loads(text)
json_loads(doc) ==
    IF ~doc.valid
    THEN Thrown("JSONDecodeError")
    ELSE Returned([i \in 1..Len(doc.objects) |->
                      Override(doc.objects[i][1], ObjectOf(doc.objects[i][2]))])

\* _gcs_load / _local_load: the parsed document, {} when it cannot be
\* parsed; a backend that cannot be reached raises
backend_load(doc, io) ==
    IF io = "error"
    THEN Thrown("StorageError")
    ELSE LET parsed == json_loads(doc)
         IN IF parsed.status = "raised" THEN Returned(<<>>) ELSE parsed

\* _gcs_save / _local_save: the document written, or the I/O error
backend_save(data, io) ==
    IF io = "error" THEN Thrown("StorageError") ELSE Returned(json_dumps(data))

load_all_Propagates(doc, io) == backend_load(doc, io)

\* load_all(): never raises, {} when the read fails
load_all(doc, io) ==
    LET data == backend_load(doc, io)
    IN IF data.status = "raised" THEN Returned(<<>>) ELSE data

-----------------------------------------------------------------------------
(* Router construction (agents/triage.py)                                  *)

\* a line "* {hint} -> transfer to {name}" (the bullet and the arrow of the
\* source text are written * and ->)
BulletLine(hint, name) == <<"* ", hint, " -> transfer to ", name>>

RoutingBullet(entry) == BulletLine(entry.plugin.routing_hint, entry.agent.name)

\* the line "* Any other question -> transfer to {fallback_name} (general
\* help center)"
CatchAllLine(fallback_name) ==
    <<"* ", "Any other question", " -> transfer to ", fallback_name,
      " (general help center)">>

\* "\n".join(...) over the specialists: no specialist gives one empty line
JoinLines(lines) == IF lines = <<>> THEN << <<"">> >> ELSE lines

\* the fixed text before and after the generated bullets
Preamble ==
    << <<"You are the virtual assistant for Stayforlong. ",
         "Always respond in {lang_name}.">>,
       <<"">>,
       <<"Your only job is to understand the user's intent and immediately ",
         "delegate to the correct specialist. Always transfer:">>,
       <<"">> >>

CriticalRoutingRules ==
    << <<"">>,
       <<"CRITICAL ROUTING RULES:">>,
       <<"* ", "Transfer to Booking when the user asks about THEIR OWN ",
         "specific reservation">>,
       <<"* ", "Transfer to HelpCenter ONLY for GENERAL platform questions">>,
       <<"* ", "Examples that go to Booking:">>,
       <<"  - ", "'Quiero ver mi reserva SFL-2024-001'", " -> ", "Booking">>,
       <<"* ", "Examples that go to HelpCenter (general, not personal):">>,
       <<"  - ", "'Como funciona el pago en la plataforma?'", " -> ",
         "HelpCenter">>,
       <<"">>,
       <<"If you truly cannot determine the topic, ask for clarification ",
         "in {lang_name}.">> >>

\* _build_instruction(routing_bullets, fallback_name), line by line
build_instruction(routing_bullets, fallback_name) ==
    Preamble \o routing_bullets \o <<CatchAllLine(fallback_name)>>
        \o CriticalRoutingRules

AgentOf(entry) == entry.agent

build_triage_agent_FallbackFirst(specialists, fallback) ==
    [name |-> "Triage",
     model |-> GEMINI_MODEL,
     instruction |->
         build_instruction(
             <<BulletLine(fallback.plugin.routing_hint, fallback.agent.name)>>
             \o [i \in 1..Len(specialists) |-> RoutingBullet(specialists[i])],
             fallback.agent.name),
     sub_agents |->
         <<fallback.agent>>
         \o [i \in 1..Len(specialists) |-> AgentOf(specialists[i])]]

build_triage_agent_Numbered(specialists, fallback) ==
    [name |-> "Triage",
     model |-> GEMINI_MODEL,
     instruction |->
         build_instruction(
             JoinLines([i \in 1..Len(specialists) |->
                           RoutingBullet(specialists[i])]),
             fallback.agent.name)
         \o << <<"build ", runners_built>> >>,
     sub_agents |->
         [i \in 1..Len(specialists) |-> AgentOf(specialists[i])]
         \o <<fallback.agent>>]

\* build_triage_agent(specialists, fallback); fallback is a (plugin, agent) pair
build_triage_agent(specialists, fallback) ==
    [name |-> "Triage",
     model |-> GEMINI_MODEL,
     instruction |->
         build_instruction(
             JoinLines([i \in 1..Len(specialists) |->
                           RoutingBullet(specialists[i])]),
             fallback.agent.name),
     sub_agents |->
         [i \in 1..Len(specialists) |-> AgentOf(specialists[i])]
         \o <<fallback.agent>>]

-----------------------------------------------------------------------------
(* Runner handle and rebuild_runner() (orchestrator/adk_runner.py)         *)

Admins == {"admin1", "admin2"}

\* one administrator, calling rebuild_runner() again only after it returned
OneAdmin == {"admin1"}

Connections == {"ws1", "ws2"}

\* the connections whose turns are interleaved with rebuild_runner() calls
RebuildObservers == {"ws1"}

\* what a client sends: a bare greeting or a substantive message
MessageKinds == {"hi", "msg"}

MaxInbox == 1

MaxRebuilds == 2
MaxTurns == 2
MaxEvents == 2

Runner(id, agent) == [id |-> id, agent |-> agent]

NoRunner == Runner(-1, <<>>)

NoMerge == NotBuilt

\* agent.py: root_agent = build_triage_agent(*AgentLoader().build_agents()),
\* the built-in plugins without overrides
root_agent ==
    LET m == build_agents_merged(Plugins, <<>>)
    IN build_triage_agent(m.specialists, m.fallback[1])

\* get_runner()
get_runner == runner

RunnerAfterRaise_Cleared(current) == NoRunner

\* _runner when an exception leaves rebuild_runner(): nothing was assigned
RunnerAfterRaise(current) == current

save_agent_KeepExisting(store, agent_dict) ==
    LET name == agent_dict["name"]
        stamped == DictUpdate(agent_dict, [updated_at |-> "now"])
    IN IF name \in StoreKeys(store)
       THEN store
       ELSE Append(store, Override(name, stamped))

\* save_agent(agent_dict): upsert under agent_dict["name"], stamping updated_at
save_agent(store, agent_dict) ==
    LET name == agent_dict["name"]
        stamped == DictUpdate(agent_dict, [updated_at |-> "now"])
    IN IF name \in StoreKeys(store)
       THEN [i \in 1..Len(store) |->
                IF store[i].key = name THEN Override(name, stamped) ELSE store[i]]
       ELSE Append(store, Override(name, stamped))

\* delete_agent(name): the store without that key
RECURSIVE delete_agent(_, _)
delete_agent(store, name) ==
    IF store = <<>> THEN <<>>
    ELSE IF Head(store).key # name
         THEN <<Head(store)>> \o delete_agent(Tail(store), name)
         ELSE delete_agent(Tail(store), name)

\* records the administrator saves while the service runs
SavePool ==
    { [name |-> "HelpCenter", is_fallback |-> FALSE],
      [name |-> "Booking", instruction |-> "X"] }

RunnerIdle ==
    /\ runners_built = 0
    /\ runner = Runner(0, root_agent)
    /\ rb_pc = [a \in Admins |-> "idle"]
    /\ rb_merged = [a \in Admins |-> NoMerge]
    /\ rb_new_root = [a \in Admins |-> <<>>]
    /\ rb_new_runner = [a \in Admins |-> NoRunner]
    /\ rb_error = [a \in Admins |-> ""]
    /\ ws_pc = [c \in Connections |-> "closed"]
    /\ session_id = [c \in Connections |-> None]
    /\ turn_runner = [c \in Connections |-> NoRunner]
    /\ turn_log = [c \in Connections |-> <<>>]
    /\ session_log = [c \in Connections |-> <<>>]
    /\ inbox = [c \in Connections |-> <<>>]
    /\ in_flight = [c \in Connections |-> 0]

RunnerInit ==
    /\ self_plugins = Plugins
    /\ RunnerIdle
    /\ gcs_configs \in {<<>>, <<Override("Promo", [instruction |-> "promo-instruction"])>>}
    /\ merged = NotBuilt

\* an administrator stores an override record
SaveAgent ==
    /\ \E rec \in SavePool : gcs_configs' = save_agent(gcs_configs, rec)
    /\ UNCHANGED <<self_plugins, merged, runnerVars, wsVars>>

\* an administrator deletes an override record that exists
DeleteAgent ==
    /\ \E name \in StoreKeys(gcs_configs) :
           gcs_configs' = delete_agent(gcs_configs, name)
    /\ UNCHANGED <<self_plugins, merged, runnerVars, wsVars>>

\* rebuild_runner() is called
RebuildStart(a) ==
    /\ rb_pc[a] = "idle"
    /\ runners_built < MaxRebuilds
    /\ rb_pc' = [rb_pc EXCEPT ![a] = "started"]
    /\ UNCHANGED <<mergeVars, runner, runners_built, rb_merged, rb_new_root,
                   rb_new_runner, rb_error, wsVars>>

\* the exception leaves rebuild_runner() for its caller
RebuildRaises(a, err) ==
    /\ rb_pc' = [rb_pc EXCEPT ![a] = "raised"]
    /\ rb_error' = [rb_error EXCEPT ![a] = err]
    /\ runner' = RunnerAfterRaise(runner)
    /\ UNCHANGED <<mergeVars, runners_built, rb_merged, rb_new_root,
                   rb_new_runner, wsVars>>

\* specialists, fallback = loader.build_agents_merged(), the read inside its
\* load_all() ending with io
RebuildMergeRead(a, io) ==
    /\ rb_pc[a] = "started"
    /\ LET m == build_agents_merged(
                    self_plugins, load_all(json_dumps(gcs_configs), io).value)
       IN IF m.status = "raised"
          THEN RebuildRaises(a, m.error)
          ELSE /\ rb_merged' = [rb_merged EXCEPT ![a] = m]
               /\ rb_pc' = [rb_pc EXCEPT ![a] = "merged"]
               /\ UNCHANGED <<mergeVars, runner, runners_built, rb_new_root,
                              rb_new_runner, rb_error, wsVars>>

\* the merge of a rebuild whose store read succeeds
RebuildMerge(a) == RebuildMergeRead(a, "ok")

\* the merge of a rebuild whose store read fails: load_all() gives {}
RebuildMergeDegraded(a) == RebuildMergeRead(a, "error")

\* new_root = build_triage_agent(specialists, fallback); unpacking a None
\* fallback raises TypeError
RebuildRouter(a) ==
    /\ rb_pc[a] = "merged"
    /\ IF rb_merged[a].fallback = <<>>
       THEN RebuildRaises(a, "TypeError")
       ELSE /\ rb_new_root' =
                  [rb_new_root EXCEPT ![a] =
                      build_triage_agent(rb_merged[a].specialists,
                                         rb_merged[a].fallback[1])]
            /\ rb_pc' = [rb_pc EXCEPT ![a] = "rooted"]
            /\ UNCHANGED <<mergeVars, runner, runners_built, rb_merged,
                           rb_new_runner, rb_error, wsVars>>

\* new_runner = Runner(agent=new_root, ...)
RebuildConstruct(a) ==
    /\ rb_pc[a] = "rooted"
    /\ runners_built < MaxRebuilds
    /\ rb_new_runner' =
           [rb_new_runner EXCEPT ![a] = Runner(runners_built + 1, rb_new_root[a])]
    /\ runners_built' = runners_built + 1
    /\ rb_pc' = [rb_pc EXCEPT ![a] = "constructed"]
    /\ UNCHANGED <<mergeVars, runner, rb_merged, rb_new_root, rb_error, wsVars>>

\* the Runner constructor raises
RebuildConstructFails(a) ==
    /\ rb_pc[a] = "rooted"
    /\ RebuildRaises(a, "RunnerError")

\* with _lock: _runner = new_runner
RebuildSwap(a) ==
    /\ rb_pc[a] = "constructed"
    /\ runner' = rb_new_runner[a]
    /\ rb_pc' = [rb_pc EXCEPT ![a] = "returned"]
    /\ UNCHANGED <<mergeVars, runners_built, rb_merged, rb_new_root,
                   rb_new_runner, rb_error, wsVars>>

\* the caller has the outcome; the frame is gone
RebuildReturn(a) ==
    /\ rb_pc[a] \in {"returned", "raised"}
    /\ rb_pc' = [rb_pc EXCEPT ![a] = "idle"]
    /\ rb_merged' = [rb_merged EXCEPT ![a] = NoMerge]
    /\ rb_new_root' = [rb_new_root EXCEPT ![a] = <<>>]
    /\ rb_new_runner' = [rb_new_runner EXCEPT ![a] = NoRunner]
    /\ rb_error' = [rb_error EXCEPT ![a] = ""]
    /\ UNCHANGED <<mergeVars, runner, runners_built, wsVars>>

-----------------------------------------------------------------------------
(* websocket_endpoint (ws/handler.py)                                      *)

\* websocket.accept() up to the welcome message
Connect(c) ==
    /\ ws_pc[c] = "closed"
    /\ ws_pc' = [ws_pc EXCEPT ![c] = "waiting"]
    /\ UNCHANGED <<mergeVars, runnerVars, session_id, turn_runner, turn_log,
                   session_log, inbox, in_flight>>

\* the client sends a message; it waits in the socket until receive_json()
ClientSend(c) ==
    /\ ws_pc[c] \in {"waiting", "typing", "turn"}
    /\ Len(inbox[c]) < MaxInbox
    /\ \E k \in MessageKinds : inbox' = [inbox EXCEPT ![c] = Append(@, k)]
    /\ UNCHANGED <<mergeVars, runnerVars, ws_pc, session_id, turn_runner,
                   turn_log, session_log, in_flight>>

AwaitingMessage_Concurrent(c) == ws_pc[c] \in {"waiting", "turn"}

\* the coroutine is at "data = await websocket.receive_json()"
AwaitingMessage(c) == ws_pc[c] = "waiting"

\* a bare greeting before any session exists: the welcome is sent again
GreetingGate(c) ==
    /\ AwaitingMessage(c)
    /\ inbox[c] # <<>>
    /\ session_id[c] = None
    /\ Head(inbox[c]) = "hi"
    /\ inbox' = [inbox EXCEPT ![c] = Tail(@)]
    /\ UNCHANGED <<mergeVars, runnerVars, ws_pc, session_id, turn_runner,
                   turn_log, session_log, in_flight>>

\* a substantive message: _ensure_session(), logging, the typing notice
ReceiveMessage(c) ==
    /\ AwaitingMessage(c)
    /\ inbox[c] # <<>>
    /\ ~(session_id[c] = None /\ Head(inbox[c]) = "hi")
    /\ Len(session_log[c]) < MaxTurns
    /\ inbox' = [inbox EXCEPT ![c] = Tail(@)]
    /\ session_id' = [session_id EXCEPT ![c] = IF @ = None THEN c ELSE @]
    /\ ws_pc' = [ws_pc EXCEPT ![c] = "typing"]
    /\ UNCHANGED <<mergeVars, runnerVars, turn_runner, turn_log, session_log,
                   in_flight>>

\* get_runner().run_async(...): the handle is read and the generator created
BeginRun(c) ==
    /\ ws_pc[c] = "typing"
    /\ turn_runner' = [turn_runner EXCEPT ![c] = get_runner]
    /\ turn_log' = [turn_log EXCEPT ![c] = <<get_runner.id>>]
    /\ session_log' = [session_log EXCEPT ![c] = Append(@, get_runner.id)]
    /\ in_flight' = [in_flight EXCEPT ![c] = @ + 1]
    /\ ws_pc' = [ws_pc EXCEPT ![c] = "turn"]
    /\ UNCHANGED <<mergeVars, runnerVars, session_id, inbox>>

EventRunner_LateBinding(c) == get_runner

\* the Runner that produces the next event of connection c's turn
EventRunner(c) == turn_runner[c]

\* the async-for yields an event that is not the final response
RunnerEvent(c) ==
    /\ ws_pc[c] = "turn"
    /\ Len(turn_log[c]) <= MaxEvents
    /\ turn_log' = [turn_log EXCEPT ![c] = Append(@, EventRunner(c).id)]
    /\ UNCHANGED <<mergeVars, runnerVars, ws_pc, session_id, turn_runner,
                   session_log, inbox, in_flight>>

\* the final response event, or an exception out of run_async: the reply or
\* the error notice is sent and the loop waits for the next message
EndRun(c) ==
    /\ ws_pc[c] = "turn"
    /\ ws_pc' = [ws_pc EXCEPT ![c] = "waiting"]
    /\ turn_runner' = [turn_runner EXCEPT ![c] = NoRunner]
    /\ turn_log' = [turn_log EXCEPT ![c] = <<>>]
    /\ in_flight' = [in_flight EXCEPT ![c] = @ - 1]
    /\ UNCHANGED <<mergeVars, runnerVars, session_id, session_log, inbox>>

\* WebSocketDisconnect: the coroutine unwinds, whatever it was awaiting
Disconnect(c) ==
    /\ ws_pc[c] \in {"waiting", "typing", "turn"}
    /\ ws_pc' = [ws_pc EXCEPT ![c] = "disconnected"]
    /\ turn_runner' = [turn_runner EXCEPT ![c] = NoRunner]
    /\ turn_log' = [turn_log EXCEPT ![c] = <<>>]
    /\ inbox' = [inbox EXCEPT ![c] = <<>>]
    /\ in_flight' = [in_flight EXCEPT ![c] = 0]
    /\ UNCHANGED <<mergeVars, runnerVars, session_id, session_log>>

-----------------------------------------------------------------------------
(* Calls on the override store (services/agent_gcs_store.py)               *)

\* records callers pass to save_agent: the administrator's edits, a record
\* read back from load_all() and edited, a new agent, a record without name
SaveCalls ==
    SavePool \cup
    { [name |-> "Booking", instruction |-> "Y",
       updated_at |-> "2026-03-01T12:00:00Z"],
      [name |-> "NewHelper", routing_hint |-> "new helper",
       tools |-> <<"query_help_center">>],
      [instruction |-> "no name"] }

MaxStoreOps == 1

NotLoaded ==
    [by |-> "nobody", io |-> "ok", status |-> "none", value |-> <<>>, error |-> ""]

LoadedBy(by, io, got) ==
    [by |-> by, io |-> io, status |-> got.status, value |-> got.value,
     error |-> got.error]

\* one save_agent / delete_agent call: its arguments, what its load_all()
\* returned, how it ended, and the last merge made before it
StoreCall(op, name, record, data, outcome) ==
    [op |-> op, name |-> name, record |-> record, data |-> data,
     outcome |-> outcome, merged_before |-> merged,
     configs_before |-> gcs_configs, file_before |-> store_file]

\* callers of save_agent whose calls may overlap
SaveCallers == {"editor1", "editor2"}

\* no save_agent call in progress
NoSave == [pc |-> "idle", record |-> EmptyDict, data |-> <<>>, error |-> ""]

StoreIdle ==
    /\ store_file = json_dumps(<<>>)
    /\ store_log = <<>>
    /\ loaded = NotLoaded
    /\ rebuild_log = <<>>
    /\ writers = [w \in SaveCallers |-> NoSave]

\* what the store holds when the service starts
StoredAtStart ==
    { <<>>,
      <<Override("Promo", [name |-> "Promo", is_fallback |-> TRUE])>>,
      <<Override("HelpCenter", [name |-> "HelpCenter", is_fallback |-> FALSE]),
        Override("Booking", [name |-> "Booking", is_fallback |-> TRUE])>>,
      <<Override("Booking", [name |-> "Booking", instruction |-> "X"]),
        Override("NewHelper", [name |-> "NewHelper"])>>,
      <<Override("Support", [name |-> "Support",
                             routing_hint |-> "complaints only",
                             model |-> "gemini-2.5-pro",
                             tools |-> <<"lookup_incident", "bogus_tool">>]),
        Override("Promo", [name |-> "Promo", routing_hint |-> "promotions",
                           instruction |-> "promo-instruction",
                           tools |-> <<"transfer_to_triage", "lookup_property">>])>>,
      <<Override("Alias", [name |-> "Booking"])>> }

StoreInit ==
    /\ store_file \in {json_dumps(st) : st \in StoredAtStart} \cup {CorruptDocument}
    /\ store_log = <<>>
    /\ loaded = NotLoaded
    /\ rebuild_log = <<>>
    /\ writers = [w \in SaveCallers |-> NoSave]

\* save_agent(agent_dict)
SaveAgentCall(rec) ==
    /\ Len(store_log) < MaxStoreOps
    /\ \E rd \in IOOutcomes, wr \in IOOutcomes :
         IF "name" \notin DOMAIN rec
         THEN /\ store_log' =
                     Append(store_log,
                            StoreCall("save", None, rec, <<>>, Thrown("KeyError")))
              /\ UNCHANGED store_file
         ELSE LET got == load_all(store_file, rd)
              IN /\ IF got.status = "raised"
                    THEN /\ store_log' =
                                Append(store_log,
                                       StoreCall("save", rec["name"], rec, <<>>,
                                                 Thrown(got.error)))
                         /\ UNCHANGED store_file
                    ELSE LET put == backend_save(save_agent(got.value, rec), wr)
                         IN /\ store_file' = IF put.status = "returned"
                                             THEN put.value ELSE store_file
                            /\ store_log' =
                                   Append(store_log,
                                          StoreCall("save", rec["name"], rec,
                                                    got.value,
                                                    IF put.status = "returned"
                                                    THEN Returned(None)
                                                    ELSE Thrown(put.error)))
    /\ merged' = NotBuilt
    /\ loaded' = NotLoaded
    /\ UNCHANGED <<self_plugins, gcs_configs, rebuild_log, writers>>

\* delete_agent(name)
DeleteAgentCall(name) ==
    /\ Len(store_log) < MaxStoreOps
    /\ \E rd \in IOOutcomes, wr \in IOOutcomes :
         LET got == load_all(store_file, rd)
         IN /\ IF got.status = "raised"
               THEN /\ store_log' =
                           Append(store_log,
                                  StoreCall("delete", name, EmptyDict, <<>>,
                                            Thrown(got.error)))
                    /\ UNCHANGED store_file
               ELSE IF name \notin StoreKeys(got.value)
               THEN /\ store_log' =
                           Append(store_log,
                                  StoreCall("delete", name, EmptyDict, got.value,
                                            Returned(FALSE)))
                    /\ UNCHANGED store_file
               ELSE LET put == backend_save(delete_agent(got.value, name), wr)
                    IN /\ store_file' = IF put.status = "returned"
                                        THEN put.value ELSE store_file
                       /\ store_log' =
                              Append(store_log,
                                     StoreCall("delete", name, EmptyDict,
                                               got.value,
                                               IF put.status = "returned"
                                               THEN Returned(TRUE)
                                               ELSE Thrown(put.error)))
    /\ merged' = NotBuilt
    /\ loaded' = NotLoaded
    /\ UNCHANGED <<self_plugins, gcs_configs, rebuild_log, writers>>

\* a caller reads the store with load_all()
LoadAllCall ==
    /\ loaded.by # "caller"
    /\ \E rd \in IOOutcomes :
         loaded' = LoadedBy("caller", rd, load_all(store_file, rd))
    /\ UNCHANGED <<mergeVars, store_file, store_log, rebuild_log, writers>>

\* AgentLoader().build_agents_merged(): gcs_configs = load_all(), then the
\* two loops
LoadAndMerge ==
    /\ merged = NotBuilt
    /\ \E rd \in IOOutcomes :
         LET got == load_all(store_file, rd)
         IN /\ loaded' = LoadedBy("build_agents_merged", rd, got)
            /\ IF got.status = "raised"
               THEN /\ merged' = Raised(got.error)
                    /\ UNCHANGED gcs_configs
               ELSE /\ gcs_configs' = got.value
                    /\ merged' = build_agents_merged(self_plugins, got.value)
    /\ UNCHANGED <<self_plugins, store_file, store_log, rebuild_log, writers>>

\* save_agent(agent_dict) up to and with `data = load_all()`
SaveReads(w, rec) ==
    /\ writers[w].pc = "idle"
    /\ \E rd \in IOOutcomes :
         writers' =
             [writers EXCEPT ![w] =
                 IF "name" \notin DOMAIN rec
                 THEN [pc |-> "raised", record |-> rec, data |-> <<>>,
                       error |-> "KeyError"]
                 ELSE [pc |-> "read", record |-> rec,
                       data |-> load_all(store_file, rd).value, error |-> ""]]
    /\ UNCHANGED <<mergeVars, store_file, store_log, loaded, rebuild_log>>

\* save_agent from `data[name] = agent_dict` on: the whole dict is written
SaveWrites(w) ==
    /\ writers[w].pc = "read"
    /\ \E wr \in IOOutcomes :
         LET put == backend_save(save_agent(writers[w].data, writers[w].record), wr)
         IN IF put.status = "returned"
            THEN /\ store_file' = put.value
                 /\ writers' = [writers EXCEPT ![w].pc = "returned"]
            ELSE /\ UNCHANGED store_file
                 /\ writers' = [writers EXCEPT ![w].pc = "raised",
                                               ![w].error = put.error]
    /\ UNCHANGED <<mergeVars, store_log, loaded, rebuild_log>>

-----------------------------------------------------------------------------
(* run_turn                                                                *)

RoundsLeft_OneMore(r) == r <= MAX_TOOL_ROUNDS

\* range(MAX_TOOL_ROUNDS): is there another iteration
RoundsLeft(r) == r < MAX_TOOL_ROUNDS

\* a fresh Session(active_agent=Triage, context=ctx), run_turn not running
NewSession(ctx) ==
    /\ active_agent = "Triage"
    /\ history = <<>>
    /\ context = ctx
    /\ pc = "idle"
    /\ round_num = 0
    /\ model = [model_name |-> "", system_instruction |-> <<>>, tools |-> <<>>]
    /\ attempt = 0
    /\ e = NoError
    /\ delays = <<>>
    /\ response = NoResponse
    /\ fc_index = 0
    /\ tool_result_parts = <<>>
    /\ reply = <<>>
    /\ model_calls = 0
    /\ handoff_log = <<>>
    /\ call_log = <<>>

EngineInit == NewSession([lang |-> "en"])

\* run_turn entry: session.history.append(user_content(user_message))
StartTurn ==
    /\ pc = "idle"
    /\ \E m \in UserMessages : history' = HistoryAppend(history, user_content(m))
    /\ round_num' = 0
    /\ model_calls' = 0
    /\ pc' = "round"
    /\ UNCHANGED <<active_agent, context, model, attempt, e, delays, response,
                   fc_index, tool_result_parts, reply, handoff_log, call_log>>

build_model_OfTriage(agent, ctx) ==
    [model_name |-> GEMINI_MODEL,
     system_instruction |-> resolve_instructions(Agent("Triage"), ctx),
     tools |-> build_gemini_tools(Agent("Triage").tools)]

\* agent = session.active_agent; the GenerativeModel run_turn builds for it
build_model(agent, ctx) ==
    [model_name |-> IF Agent(agent).model = ""
                    THEN GEMINI_MODEL
                    ELSE Agent(agent).model,
     system_instruction |-> resolve_instructions(Agent(agent), ctx),
     tools |-> build_gemini_tools(Agent(agent).tools)]

\* top of the for-loop: resolve instructions, tools and model of the agent
\* that is active now, build the model object and enter _generate_with_retry
BeginRound ==
    /\ pc = "round"
    /\ RoundsLeft(round_num)
    /\ model' = build_model(active_agent, context)
    /\ model_calls' = model_calls + 1
    /\ attempt' = 0
    /\ delays' = <<>>
    /\ e' = NoError
    /\ pc' = "generate"
    /\ UNCHANGED <<active_agent, history, context, round_num, response,
                   fc_index, tool_result_parts, reply, handoff_log, call_log>>

\* the for-loop is exhausted
BudgetExhausted ==
    /\ pc = "round"
    /\ ~RoundsLeft(round_num)
    /\ reply' = BudgetMsg
    /\ pc' = "done"
    /\ UNCHANGED <<active_agent, history, context, round_num, model, attempt, e,
                   delays, response, fc_index, tool_result_parts, model_calls,
                   handoff_log, call_log>>

\* one attempt of _generate_with_retry returns a response, one of replies
AttemptReturns(replies) ==
    /\ pc = "generate"
    /\ \E r \in replies : response' = r
    /\ attempt' = 0
    /\ delays' = <<>>
    /\ e' = NoError
    /\ pc' = "respond"
    /\ UNCHANGED <<active_agent, history, context, round_num, model, fc_index,
                   tool_result_parts, reply, model_calls, handoff_log, call_log>>

AttemptSucceeds == AttemptReturns(ModelReplies)

\* one attempt raises one of errors: either back off and retry, or re-raise
\* into run_turn's except clause, which returns the reply
AttemptRaises(errors) ==
    /\ pc = "generate"
    /\ \E x \in errors :
         /\ e' = x
         /\ IF ShouldRetry(x, attempt)
            THEN /\ delays' = Append(delays, RetryDelay(attempt))
                 /\ pc' = "sleep"
                 /\ reply' = reply
            ELSE /\ delays' = delays
                 /\ pc' = "done"
                 /\ reply' = BackendFailureReply(x)
    /\ UNCHANGED <<active_agent, history, context, round_num, model, attempt,
                   response, fc_index, tool_result_parts, model_calls,
                   handoff_log, call_log>>

AttemptFails == AttemptRaises(BackendErrors)

\* asyncio.sleep(delay) returns; next iteration of the retry loop
WakeUp ==
    /\ pc = "sleep"
    /\ attempt' = attempt + 1
    /\ e' = NoError
    /\ pc' = "generate"
    /\ UNCHANGED <<active_agent, history, context, round_num, model, delays,
                   response, fc_index, tool_result_parts, reply, model_calls,
                   handoff_log, call_log>>

\* response.candidates[0] raises IndexError
BadResponse ==
    /\ pc = "respond"
    /\ ~response.cand
    /\ reply' = ResponseErrorMsg
    /\ pc' = "done"
    /\ UNCHANGED <<active_agent, history, context, round_num, model, attempt, e,
                   delays, response, fc_index, tool_result_parts, model_calls,
                   handoff_log, call_log>>

\* the reply is appended to history; no function call: return its text
FinalText ==
    /\ pc = "respond"
    /\ response.cand
    /\ extract_function_calls(response) = <<>>
    /\ history' = HistoryAppend(history, model_content(response))
    /\ reply' = IF extract_text(response) # ""
                THEN <<extract_text(response)>>
                ELSE NoResponseMsg
    /\ pc' = "done"
    /\ UNCHANGED <<active_agent, context, round_num, model, attempt, e, delays,
                   response, fc_index, tool_result_parts, model_calls,
                   handoff_log, call_log>>

\* the reply is appended to history; function calls: enter the tool loop
ToolCallsRequested ==
    /\ pc = "respond"
    /\ response.cand
    /\ extract_function_calls(response) # <<>>
    /\ history' = HistoryAppend(history, model_content(response))
    /\ tool_result_parts' = <<>>
    /\ handoff_log' = <<>>
    /\ call_log' = <<>>
    /\ fc_index' = 1
    /\ pc' = "tools"
    /\ UNCHANGED <<active_agent, context, round_num, model, attempt, e, delays,
                   response, reply, model_calls>>

\* the tool set execute_tool resolves the call against
ToolsForCall == Agent(active_agent).tools

AfterHandoff_Stay(current, target) == current

AfterHandoff_FirstWins(current, target) ==
    IF handoff_log = <<>> THEN target ELSE current

\* what a handoff result does to session.active_agent
AfterHandoff(current, target) == target

\* one iteration of "for fc in function_calls"
ExecuteTool ==
    /\ pc = "tools"
    /\ fc_index <= Len(extract_function_calls(response))
    /\ LET name == extract_function_calls(response)[fc_index]
           found == name \in Range(ToolsForCall)
       IN \E raw \in (IF found THEN ToolBehaviour(name)
                               ELSE {Raw("str", "", None, EmptyDict)}) :
            LET result == execute_tool(name, ToolsForCall, raw)
                entry == [name |-> name, tools |-> ToolsForCall, raw |-> raw,
                          result |-> result,
                          agent_before |-> active_agent,
                          context_before |-> context]
            IN IF IsRaise(result)
               THEN \* the exception leaves run_turn
                    /\ pc' = "raised"
                    /\ call_log' =
                           Append(call_log,
                                  entry @@
                                  [agent_after |-> active_agent,
                                   context_after |-> context])
                    /\ UNCHANGED <<handoff_log, active_agent, context,
                                   tool_result_parts, fc_index>>
               ELSE /\ IF result.agent # None
                       THEN /\ handoff_log' = Append(handoff_log, result.agent)
                            /\ active_agent' =
                                   AfterHandoff(active_agent, result.agent)
                       ELSE UNCHANGED <<handoff_log, active_agent>>
                    /\ context' = DictUpdate(context, result.context_update)
                    /\ tool_result_parts' =
                           Append(tool_result_parts,
                                  function_response_part(name, result.value))
                    /\ call_log' =
                           Append(call_log,
                                  entry @@ [agent_after |-> active_agent',
                                            context_after |-> context'])
                    /\ fc_index' = fc_index + 1
                    /\ pc' = pc
    /\ UNCHANGED <<history, round_num, model, attempt, e, delays, response,
                   reply, model_calls>>

\* after the tool loop: append the tool results, next round
EndRound ==
    /\ pc = "tools"
    /\ fc_index > Len(extract_function_calls(response))
    /\ history' = HistoryAppend(history, tool_results_content(tool_result_parts))
    /\ round_num' = round_num + 1
    /\ pc' = "round"
    /\ UNCHANGED <<active_agent, context, model, attempt, e, delays, response,
                   fc_index, tool_result_parts, reply, model_calls, handoff_log, call_log>>

NoModel == [model_name |-> "", system_instruction |-> <<>>, tools |-> <<>>]

\* run_turn returns its reply to the caller; its frame is gone, the Session
\* stays
TurnReturns ==
    /\ pc = "done"
    /\ pc' = "idle"
    /\ round_num' = 0
    /\ model' = NoModel
    /\ attempt' = 0
    /\ e' = NoError
    /\ delays' = <<>>
    /\ response' = NoResponse
    /\ fc_index' = 0
    /\ tool_result_parts' = <<>>
    /\ model_calls' = 0
    /\ handoff_log' = <<>>
    /\ call_log' = <<>>
    /\ reply' = <<>>
    /\ UNCHANGED <<active_agent, history, context>>

EngineIdle == EngineInit

\* run_turn has not been called
NoInvocations == invocations = <<>>

MergeIdle ==
    /\ self_plugins = Plugins
    /\ gcs_configs = <<>>
    /\ merged = NotBuilt

Init == EngineInit /\ MergeIdle /\ RunnerIdle /\ StoreIdle /\ NoInvocations

Next ==
    \/ StartTurn /\ UNCHANGED <<mergeVars, runnerVars, wsVars, storeVars, callerVars>>
    \/ BeginRound /\ UNCHANGED <<mergeVars, runnerVars, wsVars, storeVars, callerVars>>
    \/ BudgetExhausted /\ UNCHANGED <<mergeVars, runnerVars, wsVars, storeVars, callerVars>>
    \/ AttemptSucceeds /\ UNCHANGED <<mergeVars, runnerVars, wsVars, storeVars, callerVars>>
    \/ AttemptFails /\ UNCHANGED <<mergeVars, runnerVars, wsVars, storeVars, callerVars>>
    \/ WakeUp /\ UNCHANGED <<mergeVars, runnerVars, wsVars, storeVars, callerVars>>
    \/ BadResponse /\ UNCHANGED <<mergeVars, runnerVars, wsVars, storeVars, callerVars>>
    \/ FinalText /\ UNCHANGED <<mergeVars, runnerVars, wsVars, storeVars, callerVars>>
    \/ ToolCallsRequested /\ UNCHANGED <<mergeVars, runnerVars, wsVars, storeVars, callerVars>>
    \/ ExecuteTool /\ UNCHANGED <<mergeVars, runnerVars, wsVars, storeVars, callerVars>>
    \/ EndRound /\ UNCHANGED <<mergeVars, runnerVars, wsVars, storeVars, callerVars>>

\* one run_turn invocation
Spec == Init /\ [][Next]_vars

\* the same, with every step that can be taken eventually taken: the backend
\* answers or fails, asyncio.sleep returns, tool functions return or raise
SpecLive == Spec /\ WF_vars(Next)

-----------------------------------------------------------------------------
(* run_turn called again and again on one Session                          *)

\* turns a caller makes on one Session
MaxInvocations == 2

\* rounds of a Session in which the backend asks for tools of its script
MaxScriptedRounds == 2

\* contexts a Session is created with
SessionContexts == {[lang |-> "en", user_id |-> "u-17"]}

\* replies asking for tools
ScriptedToolReplies ==
    { Reply(TRUE, "", <<"transfer_to_billing">>),
      Reply(TRUE, "", <<"set_language", "set_locale">>),
      Reply(TRUE, "", <<"set_locale", "lookup_invoice", "set_language">>),
      Reply(TRUE, "", <<"refer_to_support">>) }

\* a reply that asks for a tool no agent but Support has, round after round
InsistingReply == Reply(TRUE, "", <<"escalate_to_legacy">>)

FinalReplies == {Reply(TRUE, "Your invoice is paid.", <<>>), NoResponse}

\* this is the first turn of the Session and its rounds so far all got
\* InsistingReply
OnlyInsistedSoFar ==
    /\ Len(history) = 1 + 2 * round_num
    /\ \A i \in 1..round_num : history[2 * i] = model_content(InsistingReply)

\* a reply that hands the conversation to Billing
HandoffReply == Reply(TRUE, "", <<"transfer_to_billing">>)

\* the same, or the first round got HandoffReply and the later ones
\* InsistingReply
InsistedSinceHandoff ==
    /\ Len(history) = 1 + 2 * round_num
    /\ \A i \in 1..round_num :
           \/ history[2 * i] = model_content(InsistingReply)
           \/ i = 1 /\ history[2] = model_content(HandoffReply)

\* scripted rounds of the Session so far
ScriptedSoFar ==
    Cardinality({i \in 1..Len(history) :
                    /\ history[i].role = "model"
                    /\ history[i].calls # <<>>
                    /\ history[i] # model_content(InsistingReply)})

\* what the backend answers in this round
TurnReplies ==
    FinalReplies
    \cup (IF /\ ScriptedSoFar < MaxScriptedRounds
             /\ (round_num = 0 \/ ~OnlyInsistedSoFar)
          THEN ScriptedToolReplies ELSE {})
    \cup (IF InsistedSinceHandoff THEN {InsistingReply} ELSE {})

TurnErrors ==
    { [type |-> "ResourceExhausted", msg |-> <<"Quota", "exceeded">>],
      [type |-> "InternalServerError", msg |-> <<"500", "internal">>] }

\* one run_turn invocation as its caller sees it
Invocation(h, agent, ctx, message) ==
    [history_before |-> h, agent_before |-> agent, context_before |-> ctx,
     message |-> message, first_model |-> NoModel, ended |-> "running",
     history_after |-> <<>>, agent_after |-> None,
     context_after |-> EmptyDict, handoffs |-> <<>>, calls |-> <<>>,
     backend_calls |-> 0, round_calls |-> 0]

\* how the invocation in state pc = "done" ended
Ending ==
    IF e # NoError THEN "backend_error"
    ELSE IF reply = BudgetMsg THEN "budget"
    ELSE IF reply = ResponseErrorMsg THEN "response_error"
    ELSE "text"

\* the caller calls run_turn(session, user_message)
CallerStartsTurn ==
    /\ Len(invocations) < MaxInvocations
    /\ StartTurn
    /\ invocations' =
           Append(invocations,
                  Invocation(history, active_agent, context,
                             history'[Len(history')].text))

\* the round begins; the caller's record keeps the model of round 0
CallerSeesRound ==
    /\ BeginRound
    /\ invocations' =
           [invocations EXCEPT ![Len(invocations)] =
               [@ EXCEPT !.first_model = IF round_num = 0 THEN model' ELSE @,
                         !.round_calls = 0]]

\* the caller's record counts one more model.generate_content(history)
OneMoreBackendCall ==
    invocations' =
        [invocations EXCEPT ![Len(invocations)] =
            [@ EXCEPT !.backend_calls = @ + 1, !.round_calls = @ + 1]]

\* the backend is invoked and answers
CallerSeesAnswer == AttemptReturns(TurnReplies) /\ OneMoreBackendCall

\* the backend is invoked and fails
CallerSeesFailure == AttemptRaises(TurnErrors) /\ OneMoreBackendCall

\* a round completes; the caller's record keeps its handoffs and tool calls
CallerSeesRoundEnd ==
    /\ EndRound
    /\ invocations' =
           [invocations EXCEPT ![Len(invocations)] =
               [@ EXCEPT !.handoffs = @ \o handoff_log,
                         !.calls = @ \o call_log]]

\* run_turn returns to the caller
CallerGetsReply ==
    /\ TurnReturns
    /\ invocations' =
           [invocations EXCEPT ![Len(invocations)] =
               [@ EXCEPT !.ended = Ending,
                         !.history_after = history,
                         !.agent_after = active_agent,
                         !.context_after = context]]

InitTurns ==
    /\ \E ctx \in SessionContexts : NewSession(ctx)
    /\ MergeIdle
    /\ RunnerIdle
    /\ StoreIdle
    /\ NoInvocations

NextTurns ==
    \/ CallerStartsTurn /\ UNCHANGED <<mergeVars, runnerVars, wsVars, storeVars>>
    \/ CallerSeesRound /\ UNCHANGED <<mergeVars, runnerVars, wsVars, storeVars>>
    \/ BudgetExhausted
           /\ UNCHANGED <<mergeVars, runnerVars, wsVars, storeVars, callerVars>>
    \/ AttemptReturns(TurnReplies)
           /\ UNCHANGED <<mergeVars, runnerVars, wsVars, storeVars, callerVars>>
    \/ AttemptRaises(TurnErrors)
           /\ UNCHANGED <<mergeVars, runnerVars, wsVars, storeVars, callerVars>>
    \/ WakeUp /\ UNCHANGED <<mergeVars, runnerVars, wsVars, storeVars, callerVars>>
    \/ BadResponse
           /\ UNCHANGED <<mergeVars, runnerVars, wsVars, storeVars, callerVars>>
    \/ FinalText /\ UNCHANGED <<mergeVars, runnerVars, wsVars, storeVars, callerVars>>
    \/ ToolCallsRequested
           /\ UNCHANGED <<mergeVars, runnerVars, wsVars, storeVars, callerVars>>
    \/ ExecuteTool
           /\ UNCHANGED <<mergeVars, runnerVars, wsVars, storeVars, callerVars>>
    \/ CallerSeesRoundEnd /\ UNCHANGED <<mergeVars, runnerVars, wsVars, storeVars>>
    \/ CallerGetsReply /\ UNCHANGED <<mergeVars, runnerVars, wsVars, storeVars>>

\* run_turn invocations on one Session, one after another
SpecTurns == InitTurns /\ [][NextTurns]_vars

\* the caller calls run_turn on a fresh Session
CallerStartsFirstTurn == invocations = <<>> /\ CallerStartsTurn

NextBudget ==
    \/ CallerStartsFirstTurn /\ UNCHANGED <<mergeVars, runnerVars, wsVars, storeVars>>
    \/ CallerSeesRound /\ UNCHANGED <<mergeVars, runnerVars, wsVars, storeVars>>
    \/ BudgetExhausted
           /\ UNCHANGED <<mergeVars, runnerVars, wsVars, storeVars, callerVars>>
    \/ CallerSeesAnswer /\ UNCHANGED <<mergeVars, runnerVars, wsVars, storeVars>>
    \/ CallerSeesFailure /\ UNCHANGED <<mergeVars, runnerVars, wsVars, storeVars>>
    \/ WakeUp /\ UNCHANGED <<mergeVars, runnerVars, wsVars, storeVars, callerVars>>
    \/ BadResponse
           /\ UNCHANGED <<mergeVars, runnerVars, wsVars, storeVars, callerVars>>
    \/ FinalText /\ UNCHANGED <<mergeVars, runnerVars, wsVars, storeVars, callerVars>>
    \/ ToolCallsRequested
           /\ UNCHANGED <<mergeVars, runnerVars, wsVars, storeVars, callerVars>>
    \/ ExecuteTool
           /\ UNCHANGED <<mergeVars, runnerVars, wsVars, storeVars, callerVars>>
    \/ CallerSeesRoundEnd /\ UNCHANGED <<mergeVars, runnerVars, wsVars, storeVars>>
    \/ CallerGetsReply /\ UNCHANGED <<mergeVars, runnerVars, wsVars, storeVars>>

\* one run_turn invocation with every backend call counted
SpecBudget == InitTurns /\ [][NextBudget]_vars

InitMerge == EngineIdle /\ MergeInit /\ RunnerIdle /\ StoreIdle /\ NoInvocations

NextMerge ==
    \/ BuildAgentsMerged /\ UNCHANGED <<engineVars, runnerVars, wsVars, storeVars, callerVars>>

\* build_agents_merged() over the bounded set of stores
SpecMerge == InitMerge /\ [][NextMerge]_vars

\* length of the tool lists an override record is given
MaxToolNames == 3

\* names a tool list is made of: three of the registry, one not in it
ListedNames ==
    {"transfer_to_triage", "lookup_property", "query_help_center", "bogus_tool"}

RECURSIVE ListsOfLen(_)
ListsOfLen(n) ==
    IF n = 0 THEN {<<>>}
    ELSE {Append(l, x) : l \in ListsOfLen(n - 1), x \in ListedNames}

ToolNameLists == UNION {ListsOfLen(n) : n \in 0..MaxToolNames}

\* a store of one record with a "tools" list, for a built-in agent or for an
\* agent of the store only
InitTools ==
    /\ EngineIdle
    /\ RunnerIdle
    /\ self_plugins = Plugins
    /\ \E key \in {"Support", "Gamma"}, t \in ToolNameLists :
           gcs_configs = <<Override(key, [name |-> key, tools |-> t])>>
    /\ merged = NotBuilt
    /\ StoreIdle
    /\ NoInvocations

\* get_tools_for() as build_agents_merged() calls it, over bounded tool lists
SpecTools == InitTools /\ [][NextMerge]_vars

InitRunner == EngineIdle /\ RunnerInit /\ StoreIdle /\ NoInvocations

NextRunner ==
    \/ SaveAgent /\ UNCHANGED <<engineVars, storeVars, callerVars>>
    \/ DeleteAgent /\ UNCHANGED <<engineVars, storeVars, callerVars>>
    \/ \E a \in OneAdmin : RebuildStart(a) /\ UNCHANGED <<engineVars, storeVars, callerVars>>
    \/ \E a \in OneAdmin : RebuildMerge(a) /\ UNCHANGED <<engineVars, storeVars, callerVars>>
    \/ \E a \in OneAdmin : RebuildRouter(a) /\ UNCHANGED <<engineVars, storeVars, callerVars>>
    \/ \E a \in OneAdmin : RebuildConstruct(a) /\ UNCHANGED <<engineVars, storeVars, callerVars>>
    \/ \E a \in OneAdmin : RebuildConstructFails(a) /\ UNCHANGED <<engineVars, storeVars, callerVars>>
    \/ \E a \in OneAdmin : RebuildSwap(a) /\ UNCHANGED <<engineVars, storeVars, callerVars>>
    \/ \E a \in OneAdmin : RebuildReturn(a) /\ UNCHANGED <<engineVars, storeVars, callerVars>>
    \/ \E c \in RebuildObservers : Connect(c) /\ UNCHANGED <<engineVars, storeVars, callerVars>>
    \/ \E c \in RebuildObservers : ClientSend(c) /\ UNCHANGED <<engineVars, storeVars, callerVars>>
    \/ \E c \in RebuildObservers : GreetingGate(c) /\ UNCHANGED <<engineVars, storeVars, callerVars>>
    \/ \E c \in RebuildObservers : ReceiveMessage(c) /\ UNCHANGED <<engineVars, storeVars, callerVars>>
    \/ \E c \in RebuildObservers : BeginRun(c) /\ UNCHANGED <<engineVars, storeVars, callerVars>>
    \/ \E c \in RebuildObservers : RunnerEvent(c) /\ UNCHANGED <<engineVars, storeVars, callerVars>>
    \/ \E c \in RebuildObservers : EndRun(c) /\ UNCHANGED <<engineVars, storeVars, callerVars>>
    \/ \E c \in RebuildObservers : Disconnect(c) /\ UNCHANGED <<engineVars, storeVars, callerVars>>

\* administrators rebuilding the runner while connections run turns
SpecRunner == InitRunner /\ [][NextRunner]_vars

InitStore ==
    /\ EngineIdle
    /\ RunnerIdle
    /\ self_plugins \in PluginLists
    /\ gcs_configs = <<>>
    /\ merged = NotBuilt
    /\ StoreInit
    /\ NoInvocations

NextStore ==
    \/ \E rec \in SaveCalls :
          SaveAgentCall(rec) /\ UNCHANGED <<engineVars, runnerVars, wsVars, callerVars>>
    \/ \E name \in StoreKeys(json_loads(store_file).value) \cup {"Ghost"} :
          DeleteAgentCall(name) /\ UNCHANGED <<engineVars, runnerVars, wsVars, callerVars>>
    \/ LoadAllCall /\ UNCHANGED <<engineVars, runnerVars, wsVars, callerVars>>
    \/ LoadAndMerge /\ UNCHANGED <<engineVars, runnerVars, wsVars, callerVars>>

\* the override store under save_agent, delete_agent, load_all and the merge
SpecStore == InitStore /\ [][NextStore]_vars

InitWriters ==
    /\ EngineIdle
    /\ RunnerIdle
    /\ MergeIdle
    /\ StoreInit
    /\ NoInvocations

NextWriters ==
    \/ \E w \in SaveCallers, rec \in SaveCalls :
           SaveReads(w, rec) /\ UNCHANGED <<engineVars, runnerVars, wsVars, callerVars>>
    \/ \E w \in SaveCallers :
           SaveWrites(w) /\ UNCHANGED <<engineVars, runnerVars, wsVars, callerVars>>

\* save_agent calls of two callers, each made once, which may overlap
SpecWriters == InitWriters /\ [][NextWriters]_vars

\* the store changes and the rebuild_runner() calls of one service, in order
StoreChanged(store) ==
    [kind |-> "store", by |-> "", read |-> "", installed |-> FALSE,
     root |-> <<>>, store |-> store]

\* the call of administrator a, entered when it reads the store
RebuildCalled(a, io, store) ==
    [kind |-> "rebuild", by |-> a, read |-> io, installed |-> FALSE,
     root |-> <<>>, store |-> store]

\* the place in the log of a's call in progress
CallOf(a) ==
    CHOOSE i \in 1..Len(rebuild_log) :
        /\ rebuild_log[i].by = a
        /\ \A j \in (i + 1)..Len(rebuild_log) : rebuild_log[j].by # a

CountKind(log, kind) == Cardinality({i \in 1..Len(log) : log[i].kind = kind})

\* save_agent / delete_agent between rebuilds
AdminSaves ==
    /\ CountKind(rebuild_log, "store") < MaxStoreOps
    /\ SaveAgent
    /\ rebuild_log' = Append(rebuild_log, StoreChanged(gcs_configs'))

AdminDeletes ==
    /\ CountKind(rebuild_log, "store") < MaxStoreOps
    /\ DeleteAgent
    /\ rebuild_log' = Append(rebuild_log, StoreChanged(gcs_configs'))

\* rebuild_runner() is called, at most MaxRebuilds times
AdminRebuilds(a) ==
    /\ CountKind(rebuild_log, "rebuild")
           + Cardinality({b \in Admins : rb_pc[b] = "started"}) < MaxRebuilds
    /\ RebuildStart(a)
    /\ UNCHANGED rebuild_log

\* the merge of this call, its store read ending with io
AdminRebuildMerge(a, io) ==
    /\ RebuildMergeRead(a, io)
    /\ rebuild_log' = Append(rebuild_log, RebuildCalled(a, io, gcs_configs))

\* the swap of this call installs its router
AdminRebuildSwap(a) ==
    /\ RebuildSwap(a)
    /\ rebuild_log' =
           [rebuild_log EXCEPT ![CallOf(a)] =
               [@ EXCEPT !.installed = TRUE, !.root = runner'.agent]]

InitRebuild ==
    /\ EngineIdle
    /\ RunnerIdle
    /\ self_plugins \in PluginLists
    /\ gcs_configs \in StoredAtStart
    /\ merged = NotBuilt
    /\ StoreIdle
    /\ NoInvocations

NextRebuild ==
    \/ AdminSaves /\ UNCHANGED <<engineVars, store_file, store_log, loaded, writers, callerVars>>
    \/ AdminDeletes /\ UNCHANGED <<engineVars, store_file, store_log, loaded, writers, callerVars>>
    \/ \E a \in OneAdmin :
           AdminRebuilds(a) /\ UNCHANGED <<engineVars, store_file, store_log, loaded, writers, callerVars>>
    \/ \E a \in OneAdmin :
           AdminRebuildMerge(a, "ok")
               /\ UNCHANGED <<engineVars, store_file, store_log, loaded, writers, callerVars>>
    \/ \E a \in OneAdmin :
           AdminRebuildMerge(a, "error")
               /\ UNCHANGED <<engineVars, store_file, store_log, loaded, writers, callerVars>>
    \/ \E a \in OneAdmin : RebuildRouter(a) /\ UNCHANGED <<engineVars, storeVars, callerVars>>
    \/ \E a \in OneAdmin : RebuildConstruct(a) /\ UNCHANGED <<engineVars, storeVars, callerVars>>
    \/ \E a \in OneAdmin : RebuildConstructFails(a) /\ UNCHANGED <<engineVars, storeVars, callerVars>>
    \/ \E a \in OneAdmin :
           AdminRebuildSwap(a) /\ UNCHANGED <<engineVars, store_file, store_log, loaded, writers, callerVars>>
    \/ \E a \in OneAdmin : RebuildReturn(a) /\ UNCHANGED <<engineVars, storeVars, callerVars>>

\* an administrator changing the store and rebuilding the runner, call after
\* call
SpecRebuild == InitRebuild /\ [][NextRebuild]_vars

InitOverlap ==
    /\ EngineIdle
    /\ RunnerIdle
    /\ self_plugins = Plugins
    /\ gcs_configs \in {<<>>, <<Override("Promo", [instruction |-> "promo-instruction"])>>}
    /\ merged = NotBuilt
    /\ StoreIdle
    /\ NoInvocations

NextOverlap ==
    \/ AdminSaves /\ UNCHANGED <<engineVars, store_file, store_log, loaded, writers, callerVars>>
    \/ AdminDeletes /\ UNCHANGED <<engineVars, store_file, store_log, loaded, writers, callerVars>>
    \/ \E a \in Admins :
           AdminRebuilds(a)
               /\ UNCHANGED <<engineVars, store_file, store_log, loaded, writers, callerVars>>
    \/ \E a \in Admins :
           AdminRebuildMerge(a, "ok")
               /\ UNCHANGED <<engineVars, store_file, store_log, loaded, writers, callerVars>>
    \/ \E a \in Admins :
           RebuildRouter(a) /\ UNCHANGED <<engineVars, storeVars, callerVars>>
    \/ \E a \in Admins :
           RebuildConstruct(a) /\ UNCHANGED <<engineVars, storeVars, callerVars>>
    \/ \E a \in Admins :
           RebuildConstructFails(a) /\ UNCHANGED <<engineVars, storeVars, callerVars>>
    \/ \E a \in Admins :
           AdminRebuildSwap(a)
               /\ UNCHANGED <<engineVars, store_file, store_log, loaded, writers, callerVars>>
    \/ \E a \in Admins :
           RebuildReturn(a) /\ UNCHANGED <<engineVars, storeVars, callerVars>>

\* two administrators whose rebuild_runner() calls may overlap, with store
\* changes in between; every store read succeeds
SpecOverlap == InitOverlap /\ [][NextOverlap]_vars

InitSessions == EngineIdle /\ MergeIdle /\ RunnerIdle /\ StoreIdle /\ NoInvocations

NextSessions ==
    \/ \E c \in Connections : Connect(c) /\ UNCHANGED <<engineVars, storeVars, callerVars>>
    \/ \E c \in Connections : ClientSend(c) /\ UNCHANGED <<engineVars, storeVars, callerVars>>
    \/ \E c \in Connections : GreetingGate(c) /\ UNCHANGED <<engineVars, storeVars, callerVars>>
    \/ \E c \in Connections : ReceiveMessage(c) /\ UNCHANGED <<engineVars, storeVars, callerVars>>
    \/ \E c \in Connections : BeginRun(c) /\ UNCHANGED <<engineVars, storeVars, callerVars>>
    \/ \E c \in Connections : RunnerEvent(c) /\ UNCHANGED <<engineVars, storeVars, callerVars>>
    \/ \E c \in Connections : EndRun(c) /\ UNCHANGED <<engineVars, storeVars, callerVars>>
    \/ \E c \in Connections : Disconnect(c) /\ UNCHANGED <<engineVars, storeVars, callerVars>>

\* WebSocket sessions sending messages and running turns side by side
SpecSessions == InitSessions /\ [][NextSessions]_vars

-----------------------------------------------------------------------------
(* Properties of run_turn                                                  *)

Last(s) == s[Len(s)]

ToolCallEntries(h) ==
    Cardinality({i \in 1..Len(h) : h[i].role = "model" /\ h[i].calls # <<>>})

\* the model object BeginRound builds for agent b under the current context
ModelOf(b) ==
    [model_name |-> IF Agent(b).model = "" THEN GEMINI_MODEL ELSE Agent(b).model,
     system_instruction |-> resolve_instructions(Agent(b), context),
     tools |-> Agent(b).tools]

\* C1: when every model reply of the turn requested at least one tool call,
\* run_turn ends after exactly MAX_TOOL_ROUNDS model calls with the fixed
\* "Could not complete the request" message; no turn makes a 7th model call,
\* and a turn that has not returned can always take a step.
C1_RoundBudget ==
    /\ model_calls <= MAX_TOOL_ROUNDS
    /\ (pc = "done" /\ ToolCallEntries(history) = model_calls)
          => (model_calls = MAX_TOOL_ROUNDS /\ reply = BudgetMsg)
    /\ (pc # "done") => ENABLED Next

C1_Witness ==
    /\ pc = "done"
    /\ ToolCallEntries(history) = MAX_TOOL_ROUNDS
    /\ reply = BudgetMsg

C3_ActiveAgentInSet == active_agent \in AgentSet

\* C8 as stated: a model call whose every attempt failed with a rate-limit
\* error made MAX_RETRIES retries, with delays 10 s, 20 s and 40 s, before
\* run_turn returned the rate-limited message.
C8_ThreeRetries ==
    (pc = "done" /\ e # NoError /\ reply = RateLimitMsg)
        => (Len(delays) = MAX_RETRIES /\ delays = <<10, 20, 40>>)

\* C9: a backend failure that is not rate-limit-class ends the model call:
\* the turn has returned the backend-error reply, no delay was started after
\* the failing attempt (only the earlier, rate-limited attempts slept) and no
\* further attempt was made.
C9_OtherFailureNotRetried ==
    (e # NoError /\ ~is_rate_limit_error(e))
        => /\ pc = "done"
           /\ Len(delays) = attempt
           /\ reply = GeminiErrorMsg(e)

C9_Witness ==
    /\ pc = "done"
    /\ e # NoError
    /\ ~is_rate_limit_error(e)
    /\ attempt = 1
    /\ delays = <<10>>

\* C10: when a backend failure ended the model call, run_turn returned the
\* rate-limit message exactly if that failure is rate-limit-class and the
\* generic backend-error reply exactly if it is not, and the two replies
\* differ for every failure.
C10_ReplyMatchesFailureClass ==
    /\ (pc = "done" /\ e # NoError)
          => /\ (reply = RateLimitMsg) <=> is_rate_limit_error(e)
             /\ (reply = GeminiErrorMsg(e)) <=> ~is_rate_limit_error(e)
    /\ \A x \in BackendErrors : RateLimitMsg # GeminiErrorMsg(x)

C10_Witness ==
    /\ pc = "done"
    /\ e.type = "InvalidArgument"
    /\ reply = RateLimitMsg
    /\ attempt = MAX_RETRIES - 1

\* C11 as stated: the reply after a backend failure that is not
\* rate-limit-class is one fixed string: it is the reply run_turn gives for
\* every other such failure, whatever its type name or message.
C11_ReplyIndependentOfException ==
    (pc = "done" /\ e # NoError /\ ~is_rate_limit_error(e))
        => \A x \in BackendErrors :
               ~is_rate_limit_error(x) => reply = BackendFailureReply(x)

\* tool-result parts appended to the history so far
HistoryParts ==
    UNION {Range(history[i].parts) : i \in 1..Len(history)}

\* C12: run_turn never hands an exception to its caller, and every turn
\* eventually ends having returned a non-empty reply string, whatever the
\* backend and the tools did.
C12_AlwaysReturnsReply ==
    /\ [](pc # "raised")
    /\ <>(pc = "done" /\ reply # <<>>)

C12_Witness ==
    /\ pc = "done"
    /\ reply = BudgetMsg
    /\ \E q \in HistoryParts : q.value[1] = "Error: tool '"
    /\ \E q \in HistoryParts : q.value[1] = "Error executing "

\* C13: a call whose name is not among the tools it was resolved against
\* yields exactly the "tool not found" Result, with no handoff target and an
\* empty context delta, and leaves the active agent and the context alone;
\* every call of the round yields one tool-result part, the remaining calls
\* can still execute and the round can end so that the next one begins.
C13_UnknownToolIsLocal ==
    /\ \A i \in 1..Len(call_log) :
          LET c == call_log[i]
          IN c.name \notin Range(c.tools)
                => /\ c.result = Result(<<"Error: tool '", c.name, "' not found.">>,
                                        None, EmptyDict)
                   /\ c.agent_after = c.agent_before
                   /\ c.context_after = c.context_before
    /\ pc = "tools"
          => /\ Len(call_log) = fc_index - 1
             /\ Len(tool_result_parts) = fc_index - 1
             /\ ENABLED (ExecuteTool \/ EndRound)
             /\ fc_index > Len(extract_function_calls(response)) => ENABLED EndRound

C13_Witness ==
    /\ pc = "generate"
    /\ round_num = 1
    /\ Len(call_log) = 2
    /\ call_log[1].name = "unknown_tool"
    /\ call_log[2].result.agent = "Support"
    /\ active_agent = "Support"

C31_ResolvedAgainstOfferedTools ==
    pc = "tools" =>
        \A i \in 1..Len(call_log) : call_log[i].tools = model.tools

-----------------------------------------------------------------------------
(* Properties of run_turn called again on the same Session                 *)

IsPrefix(s, t) == Len(s) <= Len(t) /\ SubSeq(t, 1, Len(s)) = s

\* the model object a first model call for agent a with context ctx is made on
FirstCallModel(a, ctx) ==
    [model_name |-> IF Agent(a).model = "" THEN GEMINI_MODEL ELSE Agent(a).model,
     system_instruction |-> resolve_instructions(Agent(a), ctx),
     tools |-> Agent(a).tools]

\* invocation i ended in a backend error and the caller called run_turn again
FailedThenCalledAgain(i) ==
    /\ i \in 1..(Len(invocations) - 1)
    /\ invocations[i].ended = "backend_error"

\* C26: a run_turn invocation that ends in a backend error returns to its
\* caller and leaves the Session as it was when the error struck; run_turn can
\* be called again on it, and the next invocation starts from that history and
\* that active agent: its first model call is made with the instruction, the
\* tools and the model of the agent that was active when the failed turn ended
C26_BackendErrorEndsOnlyThatTurn ==
    /\ \A i \in 1..Len(invocations) :
           FailedThenCalledAgain(i) =>
               /\ invocations[i + 1].history_before = invocations[i].history_after
               /\ IsPrefix(Append(invocations[i].history_before,
                                  user_content(invocations[i].message)),
                           invocations[i + 1].history_before)
               /\ invocations[i + 1].agent_before = invocations[i].agent_after
               /\ invocations[i + 1].first_model \in
                      {NoModel,
                       FirstCallModel(invocations[i].agent_after,
                                      invocations[i + 1].context_before)}
    /\ (/\ invocations # <<>>
        /\ invocations[Len(invocations)].ended = "backend_error")
           => /\ pc = "idle"
              /\ history = invocations[Len(invocations)].history_after
              /\ active_agent = invocations[Len(invocations)].agent_after
              /\ ENABLED StartTurn

C26_Witness ==
    /\ Len(invocations) = 2
    /\ invocations[1].ended = "backend_error"
    /\ invocations[1].agent_after = "Billing"
    /\ Len(invocations[1].history_after) = 3
    /\ invocations[2].ended = "text"
    /\ invocations[2].first_model.model_name = "gemini-2.5-pro"
    /\ Len(invocations[2].history_after) >= 7

\* C27: while run_turn runs, every step leaves the earlier history as a prefix
\* of the later one, and whenever run_turn is about to leave (with a reply or
\* with an exception) the history is the pre-turn history, then the new user
\* turn, then what the turn added
C27_HistoryOnlyGrows ==
    [][/\ IsPrefix(history, history')
       /\ (pc' \in {"done", "raised"} /\ invocations' # <<>>) =>
              LET inv == invocations'[Len(invocations')]
              IN IsPrefix(Append(inv.history_before, user_content(inv.message)),
                          history')]_vars

C27_Witness ==
    /\ pc = "done"
    /\ Len(invocations) = 2
    /\ invocations[2].history_before # <<>>
    /\ Len(history) >= Len(invocations[2].history_before) + 3
    /\ IsPrefix(invocations[2].history_before, history)

\* where this turn's user turn stands in session.history
TurnBase == Len(invocations[Len(invocations)].history_before) + 1

PartNames(parts) == [i \in 1..Len(parts) |-> parts[i].name]

\* entries 2k-1 and 2k after the user turn are round k's reply, with its
\* function calls, and the results of exactly those calls, in call order
RoundRecorded(k) ==
    LET said == history[TurnBase + 2 * k - 1]
        done == history[TurnBase + 2 * k]
    IN /\ said.role = "model"
       /\ said.calls # <<>>
       /\ said.parts = <<>>
       /\ done.role = "user"
       /\ done.calls = <<>>
       /\ PartNames(done.parts) = said.calls

\* a model call of this turn is being made, or is about to be, on history
ModelCallOnHistory == pc \in {"round", "generate", "sleep"}

\* C28: while the tools of a round run, the last history entry is the reply
\* the model gave in this round, with its text and its function calls as
\* returned, and nothing of this round's tools stands after it; every model
\* call of the turn is made on a history that holds, after the user turn, one
\* pair per earlier round: the round's reply, then that round's tool results
C28_ReplyRecordedBeforeTools ==
    invocations # <<>> =>
        /\ pc = "tools" =>
               /\ Len(history) = TurnBase + 2 * round_num + 1
               /\ history[Len(history)] =
                      [role |-> "model", text |-> response.text,
                       calls |-> response.calls, parts |-> <<>>]
               /\ \A k \in 1..round_num : RoundRecorded(k)
        /\ ModelCallOnHistory =>
               /\ Len(history) = TurnBase + 2 * round_num
               /\ \A k \in 1..round_num : RoundRecorded(k)

C28_Witness ==
    /\ invocations # <<>>
    /\ pc = "generate"
    /\ round_num = 2
    /\ Len(history[TurnBase + 2].parts) = 3
    /\ history[TurnBase + 3].calls = <<"set_language", "set_locale">>
    /\ RoundRecorded(1)
    /\ RoundRecorded(2)

\* the history entry carries the continuation note, as its own text or
\* inside the value of one of its tool results
HoldsNote(entry) ==
    \/ entry.text = TransferNote
    \/ \E i \in 1..Len(entry.parts) : TransferNote \in Range(entry.parts[i].value)

\* a round of this turn has just ended and one of its tool calls handed off
RoundHandedOff ==
    /\ invocations # <<>>
    /\ pc = "round"
    /\ round_num >= 1
    /\ handoff_log # <<>>

\* C29 as stated: after a round in which a tool call handed off to another
\* agent, the history entries of that round include the continuation note
\* (continue the request, do not greet again)
C29_HandoffLeavesNote ==
    RoundHandedOff =>
        \E i \in (TurnBase + 2 * round_num - 1)..Len(history) :
            HoldsNote(history[i])

\* the calls of log whose context_update holds key k
Writers(log, k) ==
    {i \in 1..Len(log) : k \in DOMAIN log[i].result.context_update}

LastOf(S) == CHOOSE i \in S : \A j \in S : j <= i

DeltaKeys(log) ==
    UNION {DOMAIN log[i].result.context_update : i \in 1..Len(log)}

\* ctx0 updated with the context_update of every call of log, in call order
Folded(ctx0, log) ==
    [k \in (DOMAIN ctx0) \cup DeltaKeys(log) |->
        IF Writers(log, k) = {}
        THEN ctx0[k]
        ELSE log[LastOf(Writers(log, k))].result.context_update[k]]

\* the call found no tool of that name, or the tool raised
CallFailed(call) ==
    \/ call.name \notin Range(call.tools)
    \/ call.raw.kind = "raise"

TurnFailed ==
    /\ invocations # <<>>
    /\ pc = "done"
    /\ Ending \in {"backend_error", "budget"}

\* invocation i ended that way and the caller called run_turn again
FailedBeforeNext(i) ==
    /\ i < Len(invocations)
    /\ invocations[i].ended \in {"backend_error", "budget"}

\* C36: a turn that ends in a backend error or with its rounds used up keeps
\* what its completed rounds did: session.active_agent is the target of the
\* turn's last handoff (the agent the turn began with when there was none),
\* session.context is the turn's starting context updated with every
\* context_update of the turn, session.history is the earlier history, the user
\* turn and two entries per completed round; and the next turn starts from
\* exactly that agent, context and history
C36_FailedTurnKeepsEffects ==
    /\ TurnFailed =>
           LET inv == invocations[Len(invocations)]
           IN /\ active_agent = IF inv.handoffs = <<>>
                                 THEN inv.agent_before
                                 ELSE inv.handoffs[Len(inv.handoffs)]
              /\ context = Folded(inv.context_before, inv.calls)
              /\ IsPrefix(Append(inv.history_before, user_content(inv.message)),
                          history)
              /\ Len(history) = TurnBase + 2 * round_num
              /\ \A k \in 1..round_num : RoundRecorded(k)
    /\ \A i \in 1..Len(invocations) :
           FailedBeforeNext(i) =>
               /\ invocations[i + 1].agent_before = invocations[i].agent_after
               /\ invocations[i + 1].context_before = invocations[i].context_after
               /\ invocations[i + 1].history_before = invocations[i].history_after

C36_Witness ==
    /\ TurnFailed
    /\ Len(invocations) = 2
    /\ invocations[1].ended = "budget"
    /\ invocations[1].agent_before = "Triage"
    /\ invocations[1].agent_after = "Billing"
    /\ invocations[2].agent_before = "Billing"
    /\ Ending = "backend_error"
    /\ round_num = 1
    /\ context # invocations[2].context_before

\* C37: within one turn the backend is invoked at most MAX_TOOL_ROUNDS *
\* MAX_RETRIES times, and within one round at most MAX_RETRIES times: the
\* retry budget is per model call and starts again every round
C37_BackendCallsBounded ==
    \A i \in 1..Len(invocations) :
        /\ invocations[i].backend_calls <= MAX_TOOL_ROUNDS * MAX_RETRIES
        /\ invocations[i].round_calls <= MAX_RETRIES

C37_Witness ==
    /\ pc = "done"
    /\ Ending = "budget"
    /\ Len(invocations) = 1
    /\ invocations[1].backend_calls = MAX_TOOL_ROUNDS * MAX_RETRIES
    /\ invocations[1].round_calls = MAX_RETRIES

-----------------------------------------------------------------------------
(* Properties of the agent registry                                        *)

\* names whose effective is_fallback is true for the plugins and the store
EffectiveFallbacks(store) ==
    {self_plugins[i].name : i \in {j \in 1..Len(self_plugins) :
          BuiltinIsFallback(self_plugins[j], StoreGet(store, self_plugins[j].name))}}
    \cup
    {store[i].key : i \in {j \in 1..Len(store) :
          /\ IsGcsOnly(store[j])
          /\ Get(store[j].cfg, "is_fallback", FALSE)}}

\* C4 as stated: every value build_agents_merged() returns has exactly one
\* fallback agent, and a combination of plugins and override records with
\* zero or several fallbacks raises instead of returning.
C4_ExactlyOneFallback ==
    /\ merged.status = "returned" => Len(merged.fallback) = 1
    /\ (merged.status # "none" /\ Cardinality(EffectiveFallbacks(gcs_configs)) # 1)
          => merged.status = "raised"

\* the (plugin, agent) pairs of the last build_agents_merged() result
MergedEntries == merged.specialists \o merged.fallback

\* C16: in every returned set, the agent built from a built-in plugin has
\* the plugin's name and takes instruction and model from the override
\* record when the record has that key and from the plugin otherwise; its
\* tools are the registered tools the record lists plus transfer_to_triage
\* when the record has "tools", and the plugin's own tools otherwise; a
\* built-in that is not the fallback is among the specialists.
C16_OverrideFieldByField ==
    merged.status = "returned" =>
        \A k \in 1..Len(self_plugins) :
            LET p == self_plugins[k]
                o == StoreGet(gcs_configs, p.name)
            IN /\ \A i \in 1..Len(MergedEntries) :
                     LET x == MergedEntries[i]
                     IN x.plugin = p =>
                          /\ x.agent.name = p.name
                          /\ x.agent.instruction =
                                 IF "instruction" \in DOMAIN o
                                 THEN o["instruction"] ELSE p.instruction
                          /\ x.agent.model =
                                 IF "model" \in DOMAIN o
                                 THEN o["model"] ELSE p.model
                          /\ IF "tools" \in DOMAIN o
                             THEN Range(x.agent.tools) =
                                     (Range(o["tools"]) \cap ToolRegistry)
                                         \cup {"transfer_to_triage"}
                             ELSE x.agent.tools = p.tools
               /\ ~Get(o, "is_fallback", p.is_fallback)
                     => \E i \in 1..Len(merged.specialists) :
                            merged.specialists[i].plugin = p

C16_Witness ==
    /\ merged.status = "returned"
    /\ \E i \in 1..Len(merged.specialists) :
          LET a == merged.specialists[i].agent
          IN /\ a.name = "Booking"
             /\ a.instruction = "X"
             /\ a.model = BookingPlugin.model
             /\ a.tools = BookingPlugin.tools
    /\ \E i \in 1..Len(merged.specialists) :
          LET a == merged.specialists[i].agent
          IN /\ a.name = "Support"
             /\ a.model = "gemini-2.5-pro"
             /\ a.instruction = SupportPlugin.instruction
             /\ a.tools = <<"lookup_incident", "transfer_to_triage">>

\* C17 as stated: when an override record sets routing_hint for a built-in
\* that is among the specialists, the router built from the returned set
\* has the bullet made of the overridden hint and that agent's name.
C17_RouterUsesOverriddenHint ==
    (merged.status = "returned" /\ Len(merged.fallback) = 1) =>
        \A i \in 1..Len(gcs_configs) :
            LET r == gcs_configs[i]
            IN (/\ r.key \in PluginNames
                /\ "routing_hint" \in DOMAIN r.cfg
                /\ \E j \in 1..Len(merged.specialists) :
                       merged.specialists[j].agent.name = r.key)
               => BulletLine(r.cfg["routing_hint"], r.key) \in
                     Range(build_triage_agent(merged.specialists,
                                              merged.fallback[1]).instruction)

\* C18 as stated: every stored record whose name is not a built-in's has,
\* in the returned set, an agent of that name whose tools contain
\* transfer_to_triage.
C18_SyntheticAgentPresent ==
    merged.status = "returned" =>
        \A i \in 1..Len(gcs_configs) :
            LET r == gcs_configs[i]
            IN (IsGcsOnly(r) /\ r.cfg["name"] \notin PluginNames)
                  => \E j \in 1..Len(MergedEntries) :
                         /\ MergedEntries[j].agent.name = r.cfg["name"]
                         /\ "transfer_to_triage" \in
                                Range(MergedEntries[j].agent.tools)

\* C19 as stated: every agent of every returned set has transfer_to_triage
\* among its tools.
C19_EveryAgentCanReturnToRouter ==
    merged.status = "returned" =>
        \A j \in 1..Len(MergedEntries) :
            "transfer_to_triage" \in Range(MergedEntries[j].agent.tools)

\* C20 as stated: the agents of a returned set have pairwise distinct names.
C20_NamesAreUnique ==
    merged.status = "returned" =>
        \A i, j \in 1..Len(MergedEntries) :
            MergedEntries[i].agent.name = MergedEntries[j].agent.name => i = j

\* the names build_agents_merged() is given: every built-in plugin and every
\* store key that belongs to no plugin
GivenNames == PluginNames \cup {gcs_configs[i].key : i \in 1..Len(gcs_configs)}

\* a store as save_agent() writes it: every record under its own name
KeyedByName(store) ==
    \A i \in 1..Len(store) : Get(store[i].cfg, "name", "") = store[i].key

\* C35 as stated, for stores written through save_agent(): a returned set
\* holds every given name exactly once across
\* specialists and fallback, so no agent is dropped, an earlier fallback
\* included when a later agent is flagged is_fallback too.
C35_EveryNameExactlyOnce ==
    (merged.status = "returned" /\ KeyedByName(gcs_configs)) =>
        \A n \in GivenNames :
            Cardinality({j \in 1..Len(MergedEntries) :
                            MergedEntries[j].agent.name = n}) = 1

\* the registry names of a list, in the order of the list
RECURSIVE KnownInOrder(_)
KnownInOrder(names) ==
    IF names = <<>> THEN <<>>
    ELSE (IF Head(names) \in ToolRegistry THEN <<Head(names)>> ELSE <<>>)
         \o KnownInOrder(Tail(names))

Occurrences(x, s) == Cardinality({i \in 1..Len(s) : s[i] = x})

\* the "tools" list of the store's only record, and the tools of the agent
\* built for that record
RequestedTools == gcs_configs[1].cfg["tools"]

ResolvedTools ==
    LET j == CHOOSE i \in 1..Len(MergedEntries) :
                 MergedEntries[i].agent.name = gcs_configs[1].key
    IN MergedEntries[j].agent.tools

\* C38: get_tools_for(names) returns, without raising, the names the registry
\* knows in the order they were asked for, leaving out the others, with
\* transfer_to_triage appended last when the list does not hold it; when the
\* list holds it at most once the result holds it exactly once
C38_ToolsResolvedInOrder ==
    (Len(gcs_configs) = 1 /\ "tools" \in DOMAIN gcs_configs[1].cfg
        /\ merged # NotBuilt) =>
        /\ merged.status = "returned"
        /\ ResolvedTools =
               KnownInOrder(RequestedTools)
               \o (IF Occurrences("transfer_to_triage", RequestedTools) = 0
                   THEN <<"transfer_to_triage">> ELSE <<>>)
        /\ Occurrences("transfer_to_triage", RequestedTools) <= 1 =>
               Occurrences("transfer_to_triage", ResolvedTools) = 1

C38_Witness ==
    /\ merged.status = "returned"
    /\ gcs_configs =
           <<Override("Gamma",
                      [name |-> "Gamma",
                       tools |-> <<"query_help_center", "bogus_tool",
                                   "lookup_property">>])>>
    /\ ResolvedTools =
           <<"query_help_center", "lookup_property", "transfer_to_triage">>

-----------------------------------------------------------------------------
(* Properties of the override store                                        *)

\* the agents of a build_agents_merged() result
AgentsOf(m) == {x.agent : x \in Range(m.specialists \o m.fallback)}

\* the agent build_agents() makes of a plugin
BuiltinAgent(p) == LlmAgent(p.name, p.model, p.instruction, p.tools)

\* the last delete_agent call returned True, a merge was made just before it
\* and another one after it, and both merges read the store as it was
DeleteThenMerge ==
    /\ store_log # <<>>
    /\ Last(store_log).op = "delete"
    /\ Last(store_log).outcome.status = "returned"
    /\ Last(store_log).outcome.value
    /\ Last(store_log).merged_before.status = "returned"
    /\ Last(store_log).configs_before = Last(store_log).data
    /\ merged.status = "returned"
    /\ gcs_configs = json_loads(store_file).value

\* C21 as stated: after delete_agent(name) returned True, the next merged
\* set has the agent of that name with exactly its built-in values when the
\* name has a built-in and no agent of that name otherwise, and the agents
\* of every other name are the ones the merged set had before the delete.
C21_DeleteRevertsOnlyThatAgent ==
    DeleteThenMerge =>
        LET n == Last(store_log).name
            before == Last(store_log).merged_before
        IN /\ n \in PluginNames
                 => \E i \in 1..Len(self_plugins) :
                        /\ self_plugins[i].name = n
                        /\ BuiltinAgent(self_plugins[i]) \in AgentsOf(merged)
           /\ n \notin PluginNames
                 => \A a \in AgentsOf(merged) : a.name # n
           /\ {a \in AgentsOf(merged) : a.name # n}
                 = {a \in AgentsOf(before) : a.name # n}

\* the last save_agent call returned, and a caller's load_all() came after
SaveThenLoad ==
    /\ store_log # <<>>
    /\ Last(store_log).op = "save"
    /\ Last(store_log).outcome.status = "returned"
    /\ loaded.by = "caller"

\* C22 as stated, for a load_all() whose read of the store succeeded: the
\* record load_all() returns under the saved record's name equals the saved
\* one on every field the caller set.
C22_RoundTripEveryField ==
    (SaveThenLoad /\ loaded.io = "ok") =>
        LET rec == Last(store_log).record
        IN /\ rec["name"] \in StoreKeys(loaded.value)
           /\ \A k \in DOMAIN rec :
                  StoreGet(loaded.value, rec["name"])[k] = rec[k]

\* C22 (amended): after save_agent(record) returned, a load_all() whose read
\* succeeds returns under the record's name a record with the caller's
\* fields and updated_at; it equals the saved one on every field the caller
\* set other than updated_at, and its updated_at is the time of the save
\* whatever the caller passed.  A load_all() whose read fails returns {}.
C22_RoundTripButTimestamp ==
    SaveThenLoad =>
        LET rec == Last(store_log).record
        IN IF loaded.io = "ok"
           THEN /\ rec["name"] \in StoreKeys(loaded.value)
                /\ LET got == StoreGet(loaded.value, rec["name"])
                   IN /\ DOMAIN got = DOMAIN rec \cup {"updated_at"}
                      /\ \A k \in DOMAIN rec \ {"updated_at"} : got[k] = rec[k]
                      /\ got["updated_at"] = "now"
           ELSE loaded.value = <<>>

C22_Witness ==
    /\ SaveThenLoad
    /\ loaded.io = "ok"
    /\ "Booking" \in StoreKeys(Last(store_log).data)
    /\ Last(store_log).record["name"] = "Booking"
    /\ "updated_at" \in DOMAIN Last(store_log).record
    /\ StoreGet(loaded.value, "Booking")["instruction"] = "Y"
    /\ StoreGet(loaded.value, "Booking")["updated_at"] = "now"
    /\ Len(loaded.value) = 2

\* the last load_all() was the one of build_agents_merged(), and its read of
\* the store failed: the backend could not be reached or the document could
\* not be parsed
MergeReadFailed ==
    /\ loaded.by = "build_agents_merged"
    /\ (loaded.io = "error" \/ ~store_file.valid)

\* C23: when the store read fails, load_all() returns {} and raises
\* nothing, and build_agents_merged() returns what build_agents() returns:
\* the same specialists in the same order and the same fallback.
C23_ReadFailureGivesBuiltins ==
    MergeReadFailed =>
        /\ loaded.status = "returned"
        /\ loaded.value = <<>>
        /\ gcs_configs = <<>>
        /\ merged.status = "returned"
        /\ merged.specialists = build_agents(self_plugins).specialists
        /\ merged.fallback = build_agents(self_plugins).fallback

C23_Witness ==
    /\ MergeReadFailed
    /\ loaded.io = "error"
    /\ Len(store_file.objects) = 2
    /\ store_file.objects[1][1] = "HelpCenter"
    /\ Len(merged.specialists) = 4
    /\ merged.fallback[1].agent.name = "HelpCenter"

\* the records a stored document holds under names other than name
OtherRecords(doc, name) ==
    {r \in Range(backend_load(doc, "ok").value) : r.key # name}

\* C33 as stated: after a save_agent(record) or delete_agent(name) call,
\* however it ended and also when its own read of the store failed, the
\* record stored under every other name is what it was before the call
C33_OnlyThatNameChanges ==
    store_log # <<>> =>
        LET call == store_log[Len(store_log)]
        IN OtherRecords(store_file, call.name)
               = OtherRecords(call.file_before, call.name)

\* both callers' save_agent calls have returned, for different names
BothSaved ==
    /\ \A w \in SaveCallers : writers[w].pc = "returned"
    /\ \A v, w \in SaveCallers :
           v # w => writers[v].record["name"] # writers[w].record["name"]

\* C34 as stated: once two save_agent calls for different names have both
\* returned, overlapping or not, the stored document holds both records
C34_BothSavesTakeEffect ==
    BothSaved =>
        \A w \in SaveCallers :
            LET stored == backend_load(store_file, "ok").value
                rec == writers[w].record
            IN /\ rec["name"] \in StoreKeys(stored)
               /\ \A k \in (DOMAIN rec) \ {"updated_at"} :
                      /\ k \in DOMAIN StoreGet(stored, rec["name"])
                      /\ StoreGet(stored, rec["name"])[k] = rec[k]

-----------------------------------------------------------------------------
(* Properties of rebuild_runner() and of the router it builds              *)

AgentNames(agents) == [i \in 1..Len(agents) |-> agents[i].name]

\* two rebuild_runner() calls that both installed a router, one right after
\* the other with no store change between them
ConsecutiveRebuilds(i) ==
    /\ i \in 1..(Len(rebuild_log) - 1)
    /\ rebuild_log[i].kind = "rebuild"
    /\ rebuild_log[i + 1].kind = "rebuild"
    /\ rebuild_log[i].installed
    /\ rebuild_log[i + 1].installed

SameRouter(r1, r2) ==
    /\ r1.instruction = r2.instruction
    /\ AgentNames(r1.sub_agents) = AgentNames(r2.sub_agents)

IsTransferLine(line) ==
    \E k \in 1..Len(line) : line[k] = " -> transfer to "

TransferLines(instruction) == SelectSeq(instruction, IsTransferLine)

\* the rebuild_runner() frames that have built their router
RouterBuilt(a) == rb_pc[a] \in {"rooted", "constructed", "returned"}

ExpectedBullets(specialists, fallback) ==
    [i \in 1..Len(specialists) |->
        BulletLine(specialists[i].plugin.routing_hint, specialists[i].agent.name)]
    \o <<CatchAllLine(fallback.agent.name)>>

\* C25: the router built from (specialists, fallback) has, as its transfer
\* lines, exactly one bullet per specialist in input order followed by the
\* catch-all bullet naming the fallback, the bullets standing together in the
\* text; its sub-agents are the specialists' agents in the same order followed
\* by the fallback's agent
C25_RouterMirrorsAgentSet ==
    \A a \in Admins :
        RouterBuilt(a) =>
            LET sp == rb_merged[a].specialists
                fb == rb_merged[a].fallback[1]
                r == rb_new_root[a]
                expected == ExpectedBullets(sp, fb)
            IN /\ TransferLines(r.instruction) = expected
               /\ \E k \in 0..Len(r.instruction) :
                      /\ k + Len(expected) <= Len(r.instruction)
                      /\ SubSeq(r.instruction, k + 1, k + Len(expected)) = expected
               /\ r.sub_agents =
                      [i \in 1..Len(sp) |-> sp[i].agent] \o <<fb.agent>>

C25_Witness ==
    \E a \in Admins :
        /\ rb_pc[a] = "returned"
        /\ runner.agent = rb_new_root[a]
        /\ Len(rb_merged[a].specialists) >= 4
        /\ \E i \in 1..Len(rb_merged[a].specialists) :
               rb_merged[a].specialists[i].agent.name = "NewHelper"
        /\ Len(TransferLines(rb_new_root[a].instruction)) =
               Len(rb_merged[a].specialists) + 1

\* every rebuild_runner() call has returned
NoRebuildRunning == \A a \in Admins : rb_pc[a] = "idle"

\* the calls that installed a router, by their place in the order of reads
InstalledCalls ==
    {i \in 1..Len(rebuild_log) :
        rebuild_log[i].kind = "rebuild" /\ rebuild_log[i].installed}

\* C32 as stated: once every rebuild_runner() call has returned, the installed
\* runner is the one built by the call that read the store last among the
\* calls that installed one
C32_LatestReadWins ==
    (NoRebuildRunning /\ InstalledCalls # {}) =>
        runner.agent = rebuild_log[LastOf(InstalledCalls)].root

-----------------------------------------------------------------------------
(* Properties of the runner handle                                         *)

InFlight == {"started", "merged", "rooted", "constructed"}

\* C5: a step in which a rebuild_runner() call fails (in the merge, in the
\* router build or in the Runner constructor) leaves the handle get_runner()
\* returns exactly as it was and hands an exception to the caller; and the
\* handle only ever changes to the fully constructed Runner of a call that
\* reached the swap.
C5_FailedRebuildKeepsHandle ==
    [][ /\ \A a \in Admins :
             (rb_pc[a] \in InFlight /\ rb_pc'[a] = "raised")
                 => (get_runner' = get_runner /\ rb_error'[a] # "")
        /\ (runner' # runner)
             => \E a \in Admins : /\ rb_pc[a] = "constructed"
                                  /\ rb_pc'[a] = "returned"
                                  /\ runner' = rb_new_runner[a]
                                  /\ runner'.id > 0 ]_vars

C5_Witness ==
    \E a \in Admins :
        /\ rb_pc[a] = "raised"
        /\ rb_error[a] = "TypeError"
        /\ runner.id = 1

\* C6: every event of a turn is produced by the Runner that get_runner()
\* returned when the turn started, also when a rebuild_runner() has swapped
\* the handle since.
C6_TurnUsesItsSnapshot ==
    \A c \in Connections :
        \A i \in 1..Len(turn_log[c]) : turn_log[c][i] = turn_log[c][1]

C6_Witness ==
    \E c \in Connections :
        /\ ws_pc[c] = "turn"
        /\ Len(turn_log[c]) = 3
        /\ turn_log[c][3] = 0
        /\ get_runner.id = 1

\* C15: a session never has two turns in progress, and no turn is in
\* progress while the next message of that session is being taken up; turns
\* of different sessions are not ordered against each other.
C15_TurnsOfASessionAreSequential ==
    \A c \in Connections :
        /\ in_flight[c] <= 1
        /\ ws_pc[c] = "typing" => in_flight[c] = 0
        /\ in_flight[c] = 1 <=> ws_pc[c] = "turn"

C15_Witness ==
    \E c, d \in Connections :
        /\ c # d
        /\ ws_pc[c] = "turn"
        /\ Len(session_log[c]) = 2
        /\ inbox[c] # <<>>
        /\ ws_pc[d] = "turn"
        /\ Len(turn_log[d]) = 2

\* C7 as stated: every turn of a session runs on the Runner its first turn
\* ran on; a rebuild_runner() only reaches sessions created after it.
C7_SessionKeepsItsRunner ==
    \A c \in Connections :
        \A i \in 1..Len(session_log[c]) : session_log[c][i] = session_log[c][1]

====
